---- MODULE Spec2Model ----
(***************************************************************************)
(* A model of the concurrency core of package notstd:                      *)
(*   - ResultWaiterFactory / WaitResult: a one-shot broadcast future,      *)
(*   - StoreResultWaiter / GetResultWaiter over a Store: the dedup table,  *)
(*   - CacheValue / Cache: the keyed cache with per-entry expiry.          *)
(* Every goroutine is a process with a program counter; every critical     *)
(* section guarded by a mutex is one step; channel operations are steps.   *)
(***************************************************************************)
EXTENDS Integers, Sequences, FiniteSets, TLC

\* ------------------------------------------------------------------ bounds
MaxFutures == 2      \* WaitResult calls (futures) one behaviour may create
MaxClients == 2      \* client goroutines calling the package
MaxSubs    == 2      \* registrations one future accepts (caps nextID)

Keys    == {"k1"}
FutIds  == 1..MaxFutures
Clients == 1..MaxClients
\* The goroutine StoreResultWaiter spawns for future f is process MaxClients + f.
HandlerOf(f) == MaxClients + f
Handlers == {HandlerOf(f) : f \in FutIds}
Procs   == Clients \cup Handlers

\* Result[T]: Error = 0 is the nil error.
ZeroResult == [Result |-> 0, Error |-> 0]
\* What a test sends on resultCh (Result{Result: 42}, Result{Error: boom}).
TestResults == {[Result |-> 42, Error |-> 0], [Result |-> 0, Error |-> 1]}
\* What the f-th call of fn returns: a value or an error, both peculiar to f.
FnResults(f) == {[Result |-> f, Error |-> 0], [Result |-> 0, Error |-> f]}

NoRet == [res |-> ZeroResult, ok |-> FALSE]

VARIABLES
    \* --- one broadcast future per WaitResult / ResultWaiterFactory call
    resultCh,    \* [f -> [val, closed, sent]]: the producer's input channel
    done,        \* [f -> BOOLEAN]
    hasResult,   \* [f -> BOOLEAN]
    result,      \* [f -> Result]
    subs,        \* [f -> function id -> process owning the subscriber channel]
    nextID,      \* [f -> Nat]
    mu,          \* [f -> BOOLEAN]: TRUE while the producer goroutine holds mu
    prod,        \* [f -> [pc, todo]]: the goroutine of ResultWaiterFactory
    fnpc,        \* [f -> pc of the goroutine of WaitResult]
    nFut,        \* futures created so far
    \* --- the dedup Store and the calls of StoreResultWaiter
    store,       \* the map m of Store: a function from the present keys to futures
    fkey,        \* [f -> key given to the StoreResultWaiter call that made f]
    handlerCalls,\* [f -> number of invocations of the handler]
    handlerArg,  \* [f -> (res, ok) the handler was invoked with]
    afterEvict,  \* [f -> its request looked the key up after an eviction of the key]
    \* --- the callers of a waiter function
    \* [p -> [pc, fut, key, id, canceled, ret]] and what is remembered of the call:
    \* registered (it subscribed), canceledPending (its context was canceled
    \* while the future was pending), doneAtReturn (the future was completed when
    \* it returned), arrivedInFlight / arrivedAfterEvict (what its lookup found)
    proc,
    ch,          \* [p -> [buf, closed]]: the subscriber channel of p's current call
    \* --- CacheValue and Cache
    now,         \* the clock read by time.Now()
    heap,        \* [e -> CacheValue]: entry 0 stands alone, the others belong to the Cache
    storage,     \* the map storage of Cache: a function from the present keys to entries
    conf,        \* [obj, timeout, defaultFn]: the object made and its constructor's arguments
    written,     \* [key or "cv" -> "never", or what stored its latest value: "set", "gen"
                 \*  (GetDefault), "upd" (Update), or "gone" once it was deleted]
    setAt,       \* [key or "cv" -> the time of the latest Set not deleted since, or ZeroTime]
    last,        \* the call that has just returned, with the entry as it found it
    work,        \* [w -> [pc, op, key, val, cv, ok, made, after]]: the goroutines that
                 \* call one Cache at the same time, each where its call stands
    \* --- StoreSink
    sinkStore,   \* the map m of the Store of the sink: a function from its keys to values
    strategy,    \* the UpdateStrategy of the sink
    lastApply,   \* the Apply that has just returned: its data and the map it found
    \* --- Updater
    uctx,        \* u.ctx and u.cancel: the context of the latest Start or StartSync, 0: nil
    canceled,    \* the contexts canceled so far
    wg,          \* the counter of u.wg
    loop,        \* [c -> [pc, tick, elapsed, cycled]]: the goroutine run() of call c
    ctl,         \* [pc, last]: the caller of Start, StartSync and Stop, and its latest call
    starts,      \* [c -> [op, outcome, fetched, applied]]: the c-th Start or StartSync
    meta,        \* [lastSuccess, lastError] of the Updater, whether onSuccess and onError
                 \* are set, and of the updateOnce that returned last: err, the error
                 \* it returned ("nil": none), and called, the callback it invoked
    middlewares, \* u.middlewares: the names of the middlewares, in the order added
    lastFetch    \* the latest call of the fetch chain: the middlewares then, and its log

futVars   == <<resultCh, done, hasResult, result, subs, nextID, mu, prod, fnpc, nFut>>
storeVars == <<store, fkey, handlerCalls, handlerArg, afterEvict>>
procVars  == <<proc, ch>>
cacheVars == <<now, heap, storage, conf, setAt, written, last, work>>
sinkVars  == <<sinkStore, strategy, lastApply>>
updVars   == <<uctx, canceled, wg, loop, ctl, starts, meta>>
chainVars == <<middlewares, lastFetch>>
refreshVars == <<sinkVars, updVars, chainVars>>
vars == <<futVars, storeVars, procVars, cacheVars, refreshVars>>

\* ------------------------------------------------------------ initial state
EmptyMap == [x \in {} |-> 0]
OpenChan == [buf |-> <<>>, closed |-> FALSE]
\* resultCh: val is the value offered to the receiver, sent what was ever sent.
NewChan == [val |-> <<>>, closed |-> FALSE, sent |-> <<>>]
IdleProc == [pc |-> "idle", fut |-> 0, key |-> "", id |-> 0, canceled |-> FALSE,
             ret |-> NoRet, registered |-> FALSE, canceledPending |-> FALSE,
             doneAtReturn |-> FALSE, arrivedInFlight |-> FALSE,
             arrivedAfterEvict |-> FALSE]
IdleProd == [pc |-> "none", todo |-> {}]

InitFutures ==
    /\ resultCh = [f \in FutIds |-> NewChan]
    /\ done = [f \in FutIds |-> FALSE]
    /\ hasResult = [f \in FutIds |-> FALSE]
    /\ result = [f \in FutIds |-> ZeroResult]
    /\ subs = [f \in FutIds |-> EmptyMap]
    /\ nextID = [f \in FutIds |-> 0]
    /\ mu = [f \in FutIds |-> FALSE]
    /\ prod = [f \in FutIds |-> IdleProd]
    /\ fnpc = [f \in FutIds |-> "none"]
    /\ nFut = 0

InitStore ==
    /\ store = EmptyMap
    /\ fkey = [f \in FutIds |-> ""]
    /\ handlerCalls = [f \in FutIds |-> 0]
    /\ handlerArg = [f \in FutIds |-> NoRet]
    /\ afterEvict = [f \in FutIds |-> FALSE]

InitProcs ==
    /\ proc = [p \in Procs |-> IdleProc]
    /\ ch = [p \in Procs |-> OpenChan]

\* ------------------------------------------------- ResultWaiterFactory
\* Lines 53-77: the closure's variables and the producer goroutine blocked on
\* <-resultCh.
NewFuture(f) ==
    /\ done' = [done EXCEPT ![f] = FALSE]
    /\ hasResult' = [hasResult EXCEPT ![f] = FALSE]
    /\ result' = [result EXCEPT ![f] = ZeroResult]
    /\ subs' = [subs EXCEPT ![f] = EmptyMap]
    /\ nextID' = [nextID EXCEPT ![f] = 0]
    /\ mu' = [mu EXCEPT ![f] = FALSE]
    /\ prod' = [prod EXCEPT ![f] = [IdleProd EXCEPT !.pc = "recv"]]
    /\ nFut' = nFut + 1

\* Line 63, res, ok := <-resultCh: a value when one is offered, (zero, false)
\* once the channel is closed and empty.
CanReceive(c) == c.val # <<>> \/ c.closed
Received(c) == IF c.val # <<>> THEN [res |-> c.val[1], ok |-> TRUE] ELSE NoRet

\* Mutant: hasResult = true is assigned outside the if.
CompletionAlwaysHasResult(f, got) ==
    /\ done' = [done EXCEPT ![f] = TRUE]
    /\ hasResult' = [hasResult EXCEPT ![f] = TRUE]
    /\ result' = [result EXCEPT ![f] = IF got.ok THEN got.res ELSE @]

\* Lines 64-69: mu.Lock(); done = true; if ok { result = res; hasResult = true }.
CompletionTransition(f, got) ==
    /\ done' = [done EXCEPT ![f] = TRUE]
    /\ hasResult' = [hasResult EXCEPT ![f] = got.ok]
    /\ result' = [result EXCEPT ![f] = IF got.ok THEN got.res ELSE @]

\* The producer goroutine receives and takes mu: the receive touches nothing
\* another goroutine reads, so it is one step with the locked assignments. The
\* range over subs then starts with every registered channel still to visit.
\* Receiving from the unbuffered channel of WaitResult lets its sender go on to
\* close(resultCh) and end; nothing reads resultCh again, so that close is taken
\* in the same step.
ProducerRecv(f) ==
    /\ prod[f].pc = "recv"
    /\ CanReceive(resultCh[f])
    /\ ~mu[f]
    /\ mu' = [mu EXCEPT ![f] = TRUE]
    /\ CompletionTransition(f, Received(resultCh[f]))
    /\ prod' = [prod EXCEPT ![f].pc = "range", ![f].todo = DOMAIN subs[f]]
    /\ resultCh' = [resultCh EXCEPT ![f].val = <<>>,
                                    ![f].closed = @ \/ fnpc[f] = "send"]
    /\ fnpc' = [fnpc EXCEPT ![f] = IF @ = "send" THEN "exit" ELSE @]
    /\ UNCHANGED <<cacheVars, refreshVars, subs, nextID, nFut, storeVars, procVars>>

\* Mutants of the loop body: the channel is closed without the value being
\* sent; the zero Result is sent in place of result.
BroadcastNoSend(c, has, r) == [buf |-> c.buf, closed |-> TRUE]
BroadcastZero(c, has, r) ==
    [buf |-> IF has THEN Append(c.buf, ZeroResult) ELSE c.buf, closed |-> TRUE]

\* Mutant: close(ch) is missing from the loop body.
BroadcastNoClose(c, has, r) ==
    [buf |-> IF has THEN Append(c.buf, r) ELSE c.buf, closed |-> c.closed]

\* The body of the range loop for one channel: if hasResult { ch <- result };
\* close(ch). The send blocks while the one-slot buffer is full.
Broadcast(c, has, r) ==
    [buf |-> IF has THEN Append(c.buf, r) ELSE c.buf, closed |-> TRUE]

ProducerNotify(f) ==
    /\ prod[f].pc = "range"
    /\ \E id \in prod[f].todo :
          LET p == subs[f][id] IN
          /\ hasResult[f] => Len(ch[p].buf) < 1
          /\ ~ch[p].closed
          /\ ch' = [ch EXCEPT ![p] = Broadcast(ch[p], hasResult[f], result[f])]
          /\ prod' = [prod EXCEPT ![f].todo = @ \ {id}]
    /\ UNCHANGED <<cacheVars, refreshVars, resultCh, done, hasResult, result, subs, nextID, mu, fnpc, nFut,
                   storeVars, proc>>

\* Mutant: the goroutine ends without mu.Unlock().
ProducerEndsLocked(f) ==
    /\ prod[f].pc = "range"
    /\ prod[f].todo = {}
    /\ prod' = [prod EXCEPT ![f] = [IdleProd EXCEPT !.pc = "exit"]]
    /\ UNCHANGED <<cacheVars, refreshVars, resultCh, done, hasResult, result, subs, nextID, mu, fnpc,
                   nFut, storeVars, procVars>>

\* mu.Unlock() after the loop; the goroutine ends.
ProducerUnlock(f) ==
    /\ prod[f].pc = "range"
    /\ prod[f].todo = {}
    /\ mu' = [mu EXCEPT ![f] = FALSE]
    /\ prod' = [prod EXCEPT ![f] = [IdleProd EXCEPT !.pc = "exit"]]
    /\ UNCHANGED <<cacheVars, refreshVars, resultCh, done, hasResult, result, subs, nextID, fnpc, nFut,
                   storeVars, procVars>>

\* The returned closure, lines 80-91: under mu, either the cached outcome or a
\* new subscription with a fresh one-slot channel.
Register(f, p) ==
    /\ subs' = [subs EXCEPT ![f] = [i \in DOMAIN @ \cup {nextID[f]} |->
                                      IF i = nextID[f] THEN p ELSE @[i]]]
    /\ nextID' = [nextID EXCEPT ![f] = @ + 1]
    /\ ch' = [ch EXCEPT ![p] = OpenChan]

WaiterCall(p) ==
    LET f == proc[p].fut IN
    /\ proc[p].pc = "call"
    /\ ~mu[f]
    /\ IF done[f]
       THEN /\ proc' = [proc EXCEPT ![p].pc = "returned",
                                    ![p].ret = [res |-> result[f], ok |-> hasResult[f]],
                                    ![p].doneAtReturn = TRUE]
            /\ UNCHANGED <<subs, nextID, ch>>
       ELSE /\ nextID[f] < MaxSubs
            /\ Register(f, p)
            /\ proc' = [proc EXCEPT ![p].pc = "waiting", ![p].id = nextID[f],
                                    ![p].registered = TRUE]
    /\ UNCHANGED <<cacheVars, refreshVars, resultCh, done, hasResult, result, mu, prod, fnpc, nFut, storeVars>>

\* select, case res, ok := <-ch: the buffered value, or (zero, false) once the
\* channel is closed and empty.
Receive(c) ==
    IF c.buf # <<>> THEN [res |-> c.buf[1], ok |-> TRUE] ELSE NoRet

WaiterRecv(p) ==
    /\ proc[p].pc = "waiting"
    /\ ch[p].buf # <<>> \/ ch[p].closed
    /\ proc' = [proc EXCEPT ![p].pc = "returned", ![p].ret = Receive(ch[p]),
                            ![p].doneAtReturn = done[proc[p].fut]]
    /\ ch' = [ch EXCEPT ![p].buf = <<>>]
    /\ UNCHANGED <<cacheVars, refreshVars, futVars, storeVars>>

\* select, case <-ctx.Done(): chosen whenever the context is canceled, also when
\* the channel is ready too (select picks any ready case).
WaiterCtxDone(p) ==
    /\ proc[p].pc = "waiting"
    /\ proc[p].canceled
    /\ proc' = [proc EXCEPT ![p].pc = "ctxdone"]
    /\ UNCHANGED <<cacheVars, refreshVars, futVars, storeVars, ch>>

\* Mutant: delete(subs, id) is missing.
UnsubscribeNothing(s, id) == s
\* Mutant: the canceling waiter empties the registry.
UnsubscribeAll(s, id) == EmptyMap

\* Lines 95-98: mu.Lock(); delete(subs, id); mu.Unlock(); return Result[T]{}, false.
Unsubscribe(s, id) == [i \in DOMAIN s \ {id} |-> s[i]]

WaiterUnsub(p) ==
    LET f == proc[p].fut IN
    /\ proc[p].pc = "ctxdone"
    /\ ~mu[f]
    /\ subs' = [subs EXCEPT ![f] = Unsubscribe(@, proc[p].id)]
    /\ proc' = [proc EXCEPT ![p].pc = "returned", ![p].ret = NoRet,
                            ![p].doneAtReturn = done[f]]
    /\ UNCHANGED <<cacheVars, refreshVars, resultCh, done, hasResult, result, nextID, mu, prod, fnpc, nFut,
                   storeVars, ch>>

\* The caller's context is canceled (cancel() or a timeout) during its call.
Cancel(p) ==
    /\ p \in Clients
    /\ proc[p].pc \in {"call", "waiting"}
    /\ ~proc[p].canceled
    /\ proc' = [proc EXCEPT ![p].canceled = TRUE,
                            ![p].canceledPending = ~done[proc[p].fut]]
    /\ UNCHANGED <<cacheVars, refreshVars, futVars, storeVars, ch>>

\* The call has returned to the client, which is free to call again; the
\* channel of the call is garbage.
ClientDone(p) ==
    /\ p \in Clients
    /\ proc[p].pc = "returned"
    /\ proc' = [proc EXCEPT ![p] = IdleProc]
    /\ ch' = [ch EXCEPT ![p] = OpenChan]
    /\ UNCHANGED <<cacheVars, refreshVars, futVars, storeVars>>

\* The same for a client that makes one request only.
ClientExit(p) ==
    /\ p \in Clients
    /\ proc[p].pc = "returned"
    /\ proc' = [proc EXCEPT ![p] = [IdleProc EXCEPT !.pc = "exit"]]
    /\ ch' = [ch EXCEPT ![p] = OpenChan]
    /\ UNCHANGED <<cacheVars, refreshVars, futVars, storeVars>>

\* ------------------------------------------------- a future used directly
\* The tests build resultCh themselves, hand it to ResultWaiterFactory and then
\* send one value and close, or close without sending.
EnvSend(f, v) ==
    /\ prod[f].pc # "none" /\ fnpc[f] = "none"
    /\ ~resultCh[f].closed
    /\ resultCh[f].sent = <<>>
    /\ resultCh' = [resultCh EXCEPT ![f].val = <<v>>, ![f].sent = <<v>>]
    /\ UNCHANGED <<cacheVars, refreshVars, done, hasResult, result, subs, nextID, mu, prod, fnpc, nFut,
                   storeVars, procVars>>

EnvClose(f) ==
    /\ prod[f].pc # "none" /\ fnpc[f] = "none"
    /\ ~resultCh[f].closed
    /\ resultCh' = [resultCh EXCEPT ![f].closed = TRUE]
    /\ UNCHANGED <<cacheVars, refreshVars, done, hasResult, result, subs, nextID, mu, prod, fnpc, nFut,
                   storeVars, procVars>>

\* A client calls the waiter function of future f with its own context.
CallerStart(p, f) ==
    /\ p \in Clients
    /\ proc[p].pc = "idle"
    /\ prod[f].pc # "none"
    /\ proc' = [proc EXCEPT ![p].pc = "call", ![p].fut = f]
    /\ UNCHANGED <<cacheVars, refreshVars, futVars, storeVars, ch>>

\* ------------------------------------------------------------------ Store
StoreGet(m, k) == IF k \in DOMAIN m THEN <<m[k], TRUE>> ELSE <<0, FALSE>>
StoreSet(m, k, v) == [x \in DOMAIN m \cup {k} |-> IF x = k THEN v ELSE m[x]]
\* Mutant: Delete leaves the map as it is.
StoreDeleteNothing(m, k) == m
StoreDelete(m, k) == [x \in DOMAIN m \ {k} |-> m[x]]

\* ------------------------------------------------------------- WaitResult
\* The computations still running or not yet handed to their producer.
Computing(f) == fnpc[f] \in {"run", "send"}
InFlight(k) == {f \in FutIds : fkey[f] = k /\ Computing(f)}

\* The futures of key k whose goroutine has run store.Delete(key) and ended.
Evicted(k) == {f \in FutIds : fkey[f] = k /\ proc[HandlerOf(f)].pc = "exit"}

\* Lines 107-111: res, err := fn() returns; the goroutine then blocks in
\* resultCh <- Result{..} until the producer receives.
FnReturn(f) ==
    /\ fnpc[f] = "run"
    /\ \E r \in FnResults(f) :
          resultCh' = [resultCh EXCEPT ![f].val = <<r>>, ![f].sent = <<r>>]
    /\ fnpc' = [fnpc EXCEPT ![f] = "send"]
    /\ UNCHANGED <<cacheVars, refreshVars, done, hasResult, result, subs, nextID, mu, prod, nFut,
                   storeVars, procVars>>

\* ------------------------------------------- GetResultWaiter, StoreResultWaiter
\* GetResultWaiter line 130-133: store.Get(key); without the key it returns
\* (Result[V]{}, false) at once, with it the caller goes on to waitFn(ctx).
ClientGet(p, k) ==
    /\ p \in Clients
    /\ proc[p].pc = "idle"
    /\ LET got == StoreGet(store, k) IN
       IF got[2]
       THEN proc' = [proc EXCEPT ![p].pc = "call", ![p].fut = got[1], ![p].key = k]
       ELSE proc' = [proc EXCEPT ![p].pc = "nokey", ![p].key = k, ![p].ret = NoRet,
                                 ![p].arrivedInFlight = (InFlight(k) # {}),
                                 ![p].arrivedAfterEvict = (Evicted(k) # {})]
    /\ UNCHANGED <<cacheVars, refreshVars, futVars, storeVars, ch>>

\* StoreResultWaiter line 116: waiter := WaitResult(fn) makes resultCh, starts
\* the goroutine running fn and builds the future. A client asks for this after
\* GetResultWaiter has told it the key is not in the Store.
ClientWaitResult(p) ==
    /\ p \in Clients
    /\ proc[p].pc = "nokey"
    /\ nFut < MaxFutures
    /\ LET f == nFut + 1 IN
       /\ NewFuture(f)
       /\ resultCh' = [resultCh EXCEPT ![f] = NewChan]
       /\ fnpc' = [fnpc EXCEPT ![f] = "run"]
       /\ fkey' = [fkey EXCEPT ![f] = proc[p].key]
       /\ afterEvict' = [afterEvict EXCEPT ![f] = proc[p].arrivedAfterEvict]
       /\ proc' = [proc EXCEPT ![p].pc = "set", ![p].fut = f]
    /\ UNCHANGED <<cacheVars, refreshVars, store, handlerCalls, handlerArg, ch>>

\* StoreResultWaiter lines 118-126: store.Set(key, waiter), then the goroutine
\* that waits with context.Background() is started and the call returns.
ClientStoreSet(p) ==
    LET f == proc[p].fut IN
    /\ p \in Clients
    /\ proc[p].pc = "set"
    /\ store' = StoreSet(store, proc[p].key, f)
    /\ proc' = [proc EXCEPT ![p] = [IdleProc EXCEPT !.pc = "exit"],
                            ![HandlerOf(f)] = [IdleProc EXCEPT !.pc = "call", !.fut = f,
                                                               !.key = proc[p].key]]
    /\ UNCHANGED <<cacheVars, refreshVars, futVars, fkey, handlerCalls, handlerArg, afterEvict, ch>>

\* Lines 122-124 of the goroutine: if handler != nil { handler(res, ok) }. The
\* handler is an argument of the call that nothing reads before this line, so
\* whether it is nil is chosen here.
HandlerInvoke(f) ==
    LET h == HandlerOf(f) IN
    /\ proc[h].pc = "returned"
    /\ handlerCalls' = [handlerCalls EXCEPT ![f] = @ + 1]
    /\ handlerArg' = [handlerArg EXCEPT ![f] = proc[h].ret]
    /\ proc' = [proc EXCEPT ![h].pc = "handler"]
    /\ UNCHANGED <<cacheVars, refreshVars, futVars, store, fkey, afterEvict, ch>>

HandlerSkip(f) ==
    LET h == HandlerOf(f) IN
    /\ proc[h].pc = "returned"
    /\ proc' = [proc EXCEPT ![h].pc = "nohandler"]
    /\ UNCHANGED <<cacheVars, refreshVars, futVars, store, fkey, handlerCalls, handlerArg, afterEvict, ch>>

\* Line 125: the handler (if any) has returned; store.Delete(key), and the
\* goroutine ends.
HandlerEvict(f) ==
    LET h == HandlerOf(f) IN
    /\ proc[h].pc \in {"handler", "nohandler"}
    /\ store' = StoreDelete(store, fkey[f])
    /\ proc' = [proc EXCEPT ![h] = [IdleProc EXCEPT !.pc = "exit", !.fut = f]]
    /\ ch' = [ch EXCEPT ![h] = OpenChan]
    /\ UNCHANGED <<cacheVars, refreshVars, futVars, fkey, handlerCalls, handlerArg, afterEvict>>

\* ------------------------------------------------------- CacheValue, Cache
MaxTime    == 3      \* the clock runs from 0 to MaxTime
MaxTimeout == 2      \* timeouts given to NewCacheValue and NewCache: 0..MaxTimeout
MaxBatch   == 2      \* length of the slice given to DeleteMany

CacheKeys == {"a", "b"}
Values    == {1, 2}
ZeroValue == 0                 \* var zero T
ZeroTime  == -1                \* time.Time{}: before every reading of the clock
EntryIds  == 0..Cardinality(CacheKeys)
Timeouts  == 0..MaxTimeout
\* What a generator returns: (value, nil) or (zero, error).
GenOutcomes == [val : Values, err : {FALSE}] \cup [val : {ZeroValue}, err : {TRUE}]

\* NewCacheValue(timeout, defaultFn); defaultFn is TRUE when it is not nil.
NewCacheValue(timeout, defaultFn) ==
    [value |-> ZeroValue, hasValue |-> FALSE, expiresAt |-> ZeroTime,
     timeout |-> timeout, defaultFn |-> defaultFn]
\* An entry nothing refers to any more.
FreeEntry == NewCacheValue(0, FALSE)

\* Mutant: the value counts as expired from the instant expiresAt on.
IsExpiredAtDeadline(cv, t) ==
    IF cv.timeout = 0 \/ ~cv.hasValue THEN FALSE ELSE t >= cv.expiresAt
\* Mutant: the test of timeout == 0 is missing.
IsExpiredWithoutZeroTest(cv, t) ==
    IF ~cv.hasValue THEN FALSE ELSE t > cv.expiresAt
\* CacheValue.isExpired; time.Now().After(cv.expiresAt) is now > expiresAt.
IsExpired(cv, t) ==
    IF cv.timeout = 0 \/ ~cv.hasValue THEN FALSE ELSE t > cv.expiresAt

\* Mutant: GetNoDefault never finds the value.
CvGetNoDefaultMiss(cv, t) == [val |-> ZeroValue, ok |-> FALSE]
\* Mutant: Has tells whether a value is stored, expired or not.
CvHasStored(cv, t) == cv.hasValue
\* CacheValue.GetNoDefault, CacheValue.Has.
CvGetNoDefault(cv, t) ==
    IF ~cv.hasValue \/ IsExpired(cv, t)
    THEN [val |-> ZeroValue, ok |-> FALSE]
    ELSE [val |-> cv.value, ok |-> TRUE]
CvHas(cv, t) == CvGetNoDefault(cv, t).ok

\* Mutant: Set leaves the expiry of a value that has not expired as it is.
CvSetKeepsExpiry(cv, value, t) ==
    [cv  |-> [cv EXCEPT !.value = value, !.hasValue = TRUE,
                        !.expiresAt = IF cv.timeout > 0 /\ ~(cv.hasValue /\ ~IsExpired(cv, t))
                                      THEN t + cv.timeout ELSE @],
     ret |-> cv.hasValue /\ ~IsExpired(cv, t)]
\* Mutant: Set reports whether a value was stored, expired or not.
CvSetReportsStored(cv, value, t) ==
    [cv  |-> [cv EXCEPT !.value = value, !.hasValue = TRUE,
                        !.expiresAt = IF cv.timeout > 0 THEN t + cv.timeout ELSE @],
     ret |-> cv.hasValue]
\* CacheValue.Set: the entry afterwards and the value returned.
CvSet(cv, value, t) ==
    [cv  |-> [cv EXCEPT !.value = value, !.hasValue = TRUE,
                        !.expiresAt = IF cv.timeout > 0 THEN t + cv.timeout ELSE @],
     ret |-> cv.hasValue /\ ~IsExpired(cv, t)]

\* CacheValue.Delete.
CvDelete(cv, t) ==
    [cv  |-> [cv EXCEPT !.value = ZeroValue, !.hasValue = FALSE, !.expiresAt = ZeroTime],
     ret |-> cv.hasValue /\ ~IsExpired(cv, t)]

\* Mutant: a failing generator clears the entry.
OnGeneratorErrorClear(cv, t) == CvDelete(cv, t).cv
\* What a failing generator leaves of the entry (the early returns of
\* GetDefault and Update): the entry as it was.
OnGeneratorError(cv, t) == cv

\* CacheValue.GetDefault: the cached value; without defaultFn (zero, false,
\* nil); else the generator's value, stored on success (stored tells so).
CvGetDefault(cv, gen, t) ==
    LET got == CvGetNoDefault(cv, t) IN
    IF got.ok
    THEN [cv |-> cv, val |-> got.val, ok |-> TRUE, err |-> "nil", stored |-> FALSE,
          called |-> FALSE]
    ELSE IF ~cv.defaultFn
    THEN [cv |-> cv, val |-> ZeroValue, ok |-> FALSE, err |-> "nil", stored |-> FALSE,
          called |-> FALSE]
    ELSE IF gen.err
    THEN [cv |-> OnGeneratorError(cv, t), val |-> ZeroValue, ok |-> FALSE, err |-> "gen",
          stored |-> FALSE, called |-> TRUE]
    ELSE [cv |-> CvSet(cv, gen.val, t).cv, val |-> gen.val, ok |-> FALSE, err |-> "nil",
          stored |-> TRUE, called |-> TRUE]

\* CacheValue.Update.
CvUpdate(cv, gen, t) ==
    IF ~cv.defaultFn THEN [cv |-> cv, err |-> "unset", called |-> FALSE]
    ELSE IF gen.err THEN [cv |-> OnGeneratorError(cv, t), err |-> "gen", called |-> TRUE]
    ELSE [cv |-> CvSet(cv, gen.val, t).cv, err |-> "nil", called |-> TRUE]

\* Cache.getCacheValue: the entry of the key, made and inserted when there is
\* none. The new entry is one nothing refers to.
Range(st) == {st[k] : k \in DOMAIN st}
FreeIds(st) == (EntryIds \ {0}) \ Range(st)
GetCacheValue(st, h, key, timeout) ==
    IF key \in DOMAIN st THEN [storage |-> st, heap |-> h, e |-> st[key]]
    ELSE LET e == CHOOSE x \in FreeIds(st) : \A y \in FreeIds(st) : x <= y IN
         [storage |-> [k \in DOMAIN st \cup {key} |-> IF k = key THEN e ELSE st[k]],
          heap    |-> [h EXCEPT ![e] = NewCacheValue(timeout, FALSE)],
          e       |-> e]

\* Entries dropped from storage are garbage.
Collect(h, st) == [e \in EntryIds |-> IF e = 0 \/ e \in Range(st) THEN h[e] ELSE FreeEntry]

\* Mutant: the lookup answers with whatever entry storage holds.
CacheGetNoDefaultAnyKey(st, h, key, t) ==
    IF DOMAIN st = {} THEN [val |-> ZeroValue, ok |-> FALSE]
    ELSE CvGetNoDefault(h[st[CHOOSE k \in DOMAIN st : TRUE]], t)
\* Cache.GetNoDefault, Cache.Has.
CacheGetNoDefault(st, h, key, t) ==
    IF key \notin DOMAIN st THEN [val |-> ZeroValue, ok |-> FALSE]
    ELSE CvGetNoDefault(h[st[key]], t)
CacheHas(st, h, key, t) == CacheGetNoDefault(st, h, key, t).ok

\* What a caller can tell of the entry of a key ("cv": the CacheValue that
\* stands alone); a key without entry shows as an empty entry.
View(st, h, key) ==
    LET cv == IF key = "cv" THEN h[0]
              ELSE IF key \in DOMAIN st THEN h[st[key]] ELSE FreeEntry IN
    [present |-> key = "cv" \/ key \in DOMAIN st, value |-> cv.value,
     hasValue |-> cv.hasValue, expiresAt |-> cv.expiresAt]
Has(key) == IF key = "cv" THEN CvHas(heap[0], now) ELSE CacheHas(storage, heap, key, now)

\* What is remembered of a key once Delete was called on it.
Deleted(w) == IF w = "never" THEN "never" ELSE "gone"

\* The call that has just returned: what it was, what it returned, and the
\* entry as it was when the call was made.
\* genFailed: the call ran the generator, which returned an error; calls: how
\* many times the call ran the generator.
NoCall == [op |-> "none", key |-> "", val |-> ZeroValue, ok |-> FALSE, err |-> "nil",
           genFailed |-> FALSE, calls |-> 0,
           pre |-> View(EmptyMap, [e \in EntryIds |-> FreeEntry], ""),
           given |-> {}, list |-> <<>>, preMany |-> EmptyMap, out |-> <<>>]
Call(op, key, val, ok, err, genFailed, calls) ==
    [NoCall EXCEPT !.op = op, !.key = key, !.val = val, !.ok = ok, !.err = err,
                   !.genFailed = genFailed, !.calls = calls,
                   !.pre = View(storage, heap, key)]
\* A call on many keys: the keys given (as a list where the code takes one),
\* the number returned, the list returned, and every entry as the call found it.
BulkCall(op, given, list, n, out) ==
    [NoCall EXCEPT !.op = op, !.val = n, !.given = given, !.list = list, !.out = out,
                   !.preMany = [k \in CacheKeys |-> View(storage, heap, k)]]

\* A behaviour works on one object: the CacheValue made by NewCacheValue(t, d)
\* or the Cache made by NewCache(t, 0, nil, d).
InitCache ==
    /\ now = 0
    /\ storage = EmptyMap
    /\ \E obj \in {"cv", "cache"}, t \in Timeouts, d \in BOOLEAN :
          /\ conf = [obj |-> obj, timeout |-> t, defaultFn |-> d]
          /\ heap = [e \in EntryIds |-> IF e = 0 /\ obj = "cv" THEN NewCacheValue(t, d)
                                                             ELSE FreeEntry]
    /\ setAt = [k \in CacheKeys \cup {"cv"} |-> ZeroTime]
    /\ written = [k \in CacheKeys \cup {"cv"} |-> "never"]
    /\ last = NoCall
    /\ work = EmptyMap

\* The cache of a behaviour that makes no use of it.
InitNoCache ==
    /\ now = 0
    /\ heap = EmptyMap
    /\ storage = EmptyMap
    /\ conf = EmptyMap
    /\ setAt = EmptyMap
    /\ written = EmptyMap
    /\ last = EmptyMap
    /\ work = EmptyMap

\* Time passes between two calls.
Tick ==
    /\ now < MaxTime
    /\ now' = now + 1
    /\ last' = NoCall
    /\ UNCHANGED <<refreshVars, futVars, storeVars, procVars, work, heap, storage, conf, setAt, written>>

\* The caller is done with what its call returned; the next call is made.
Forget ==
    /\ last # NoCall
    /\ last' = NoCall
    /\ UNCHANGED <<refreshVars, futVars, storeVars, procVars, work, now, heap, storage, conf, setAt, written>>

\* --- the calls on the CacheValue that stands alone
DoCvSet(v) ==
    /\ conf.obj = "cv" /\ last = NoCall
    /\ LET r == CvSet(heap[0], v, now) IN
           /\ heap' = [heap EXCEPT ![0] = r.cv]
           /\ setAt' = [setAt EXCEPT !["cv"] = now]
           /\ written' = [written EXCEPT !["cv"] = "set"]
           /\ last' = Call("cv.Set", "cv", v, r.ret, "nil", FALSE, 0)
           /\ UNCHANGED <<refreshVars, futVars, storeVars, procVars, work, now, storage, conf>>

DoCvDelete ==
    /\ conf.obj = "cv" /\ last = NoCall
    /\ LET r == CvDelete(heap[0], now) IN
           /\ heap' = [heap EXCEPT ![0] = r.cv]
           /\ setAt' = [setAt EXCEPT !["cv"] = ZeroTime]
           /\ written' = [written EXCEPT !["cv"] = Deleted(@)]
           /\ last' = Call("cv.Delete", "cv", ZeroValue, r.ret, "nil", FALSE, 0)
           /\ UNCHANGED <<refreshVars, futVars, storeVars, procVars, work, now, storage, conf>>

DoCvGetDefault(gen) ==
    /\ conf.obj = "cv" /\ last = NoCall
    /\ LET r == CvGetDefault(heap[0], gen, now) IN
           /\ heap' = [heap EXCEPT ![0] = r.cv]
           /\ setAt' = [setAt EXCEPT !["cv"] = IF r.stored THEN now ELSE @]
           /\ written' = [written EXCEPT !["cv"] = IF r.stored THEN "gen" ELSE @]
           /\ last' = Call("cv.GetDefault", "cv", r.val, r.ok, r.err, r.called /\ gen.err,
                            IF r.called THEN 1 ELSE 0)
           /\ UNCHANGED <<refreshVars, futVars, storeVars, procVars, work, now, storage, conf>>

DoCvUpdate(gen) ==
    /\ conf.obj = "cv" /\ last = NoCall
    /\ LET r == CvUpdate(heap[0], gen, now) IN
           /\ heap' = [heap EXCEPT ![0] = r.cv]
           /\ setAt' = [setAt EXCEPT !["cv"] = IF r.err = "nil" THEN now ELSE @]
           /\ written' = [written EXCEPT !["cv"] = IF r.err = "nil" THEN "upd" ELSE @]
           /\ last' = Call("cv.Update", "cv", ZeroValue, FALSE, r.err, r.called /\ gen.err,
                            IF r.called THEN 1 ELSE 0)
           /\ UNCHANGED <<refreshVars, futVars, storeVars, procVars, work, now, storage, conf>>

\* --- the calls on the Cache
\* Cache.Set: cv := c.getCacheValue(key); return cv.Set(value).
CacheSet(st, h, key, v, timeout, t) ==
    LET g == GetCacheValue(st, h, key, timeout)
        r == CvSet(g.heap[g.e], v, t) IN
    [storage |-> g.storage, heap |-> [g.heap EXCEPT ![g.e] = r.cv], ret |-> r.ret]

DoSet(key, v) ==
    /\ conf.obj = "cache" /\ last = NoCall
    /\ LET r == CacheSet(storage, heap, key, v, conf.timeout, now) IN
           /\ storage' = r.storage
           /\ heap' = r.heap
           /\ setAt' = [setAt EXCEPT ![key] = now]
           /\ written' = [written EXCEPT ![key] = "set"]
           /\ last' = Call("Set", key, v, r.ret, "nil", FALSE, 0)
           /\ UNCHANGED <<refreshVars, futVars, storeVars, procVars, work, now, conf>>

\* Cache.Delete: false without an entry; else cv.Has() and the entry is
\* dropped from storage.
CacheDelete(st, h, key, t) ==
    IF key \notin DOMAIN st THEN [storage |-> st, ret |-> FALSE]
    ELSE [storage |-> [k \in DOMAIN st \ {key} |-> st[k]], ret |-> CvHas(h[st[key]], t)]

DoDelete(key) ==
    /\ conf.obj = "cache" /\ last = NoCall
    /\ LET r == CacheDelete(storage, heap, key, now) IN
           /\ storage' = r.storage
           /\ heap' = Collect(heap, r.storage)
           /\ setAt' = [setAt EXCEPT ![key] = ZeroTime]
           /\ written' = [written EXCEPT ![key] = Deleted(@)]
           /\ last' = Call("Delete", key, ZeroValue, r.ret, "nil", FALSE, 0)
           /\ UNCHANGED <<refreshVars, futVars, storeVars, procVars, work, now, conf>>

\* Cache.GetDefault after cv := c.getCacheValue(key): without defaultFn what
\* cv.GetNoDefault() says; else the cached value, or the value of
\* c.defaultFn(key), stored on success.
CacheGetDefault(cv, defaultFn, gen, t) ==
    LET got == CvGetNoDefault(cv, t) IN
    IF ~defaultFn
    THEN [cv |-> cv, val |-> got.val, ok |-> got.ok, err |-> "nil", stored |-> FALSE,
          called |-> FALSE]
    ELSE IF got.ok
    THEN [cv |-> cv, val |-> got.val, ok |-> TRUE, err |-> "nil", stored |-> FALSE,
          called |-> FALSE]
    ELSE IF gen.err
    THEN [cv |-> OnGeneratorError(cv, t), val |-> ZeroValue, ok |-> FALSE, err |-> "gen",
          stored |-> FALSE, called |-> TRUE]
    ELSE [cv |-> CvSet(cv, gen.val, t).cv, val |-> gen.val, ok |-> FALSE, err |-> "nil",
          stored |-> TRUE, called |-> TRUE]

DoGetDefault(key, gen) ==
    /\ conf.obj = "cache" /\ last = NoCall
    /\ LET g == GetCacheValue(storage, heap, key, conf.timeout)
           r == CacheGetDefault(g.heap[g.e], conf.defaultFn, gen, now) IN
           /\ storage' = g.storage
           /\ heap' = [g.heap EXCEPT ![g.e] = r.cv]
           /\ setAt' = [setAt EXCEPT ![key] = IF r.stored THEN now ELSE @]
           /\ written' = [written EXCEPT ![key] = IF r.stored THEN "gen" ELSE @]
           /\ last' = Call("GetDefault", key, r.val, r.ok, r.err, r.called /\ gen.err,
                            IF r.called THEN 1 ELSE 0)
           /\ UNCHANGED <<refreshVars, futVars, storeVars, procVars, work, now, conf>>

\* Cache.Update: an error without defaultFn or from it, before anything is
\* touched; else c.Set(key, val).
DoUpdate(key, gen) ==
    /\ conf.obj = "cache" /\ last = NoCall
    /\ LET g == GetCacheValue(storage, heap, key, conf.timeout)
           r == CvSet(g.heap[g.e], gen.val, now) IN
           /\ IF ~conf.defaultFn \/ gen.err
              THEN UNCHANGED <<storage, heap, setAt, written>>
              ELSE /\ storage' = g.storage
                   /\ heap' = [g.heap EXCEPT ![g.e] = r.cv]
                   /\ setAt' = [setAt EXCEPT ![key] = now]
                   /\ written' = [written EXCEPT ![key] = "upd"]
           /\ last' = Call("Update", key, ZeroValue, FALSE,
                           IF ~conf.defaultFn THEN "unset"
                           ELSE IF gen.err THEN "gen" ELSE "nil",
                           conf.defaultFn /\ gen.err,
                           IF conf.defaultFn THEN 1 ELSE 0)
           /\ UNCHANGED <<refreshVars, futVars, storeVars, procVars, work, now, conf>>

\* --- the calls on many keys
\* The orders in which a range over a map may visit the keys S.
Perms(S) ==
    {q \in [1..Cardinality(S) -> S] : \A i, j \in 1..Cardinality(S) : i # j => q[i] # q[j]}
SeqsUpTo(S, n) == UNION {[1..m -> S] : m \in 0..n}

\* Mutant: every key attempted is counted.
CountAttempted(ret) == 1
\* if c.Set(k, v) { count++ }, if c.Delete(k) { count++ }
Count(ret) == IF ret THEN 1 ELSE 0

\* Cache.SetMany: c.Set for every item, in the order the range visits them.
RECURSIVE CacheSetMany(_, _, _, _, _, _)
CacheSetMany(order, items, st, h, timeout, t) ==
    IF order = <<>> THEN [storage |-> st, heap |-> h, count |-> 0]
    ELSE LET r == CacheSet(st, h, Head(order), items[Head(order)], timeout, t)
             rest == CacheSetMany(Tail(order), items, r.storage, r.heap, timeout, t) IN
         [rest EXCEPT !.count = @ + Count(r.ret)]

DoSetMany(items) ==
    /\ conf.obj = "cache" /\ last = NoCall
    /\ \E order \in Perms(DOMAIN items) :
          LET r == CacheSetMany(order, items, storage, heap, conf.timeout, now) IN
              /\ storage' = r.storage
              /\ heap' = r.heap
              /\ setAt' = [k \in DOMAIN setAt |-> IF k \in DOMAIN items THEN now ELSE setAt[k]]
              /\ written' = [k \in DOMAIN written |->
                                IF k \in DOMAIN items THEN "set" ELSE written[k]]
              /\ last' = BulkCall("SetMany", DOMAIN items, <<>>, r.count, <<>>)
              /\ UNCHANGED <<refreshVars, futVars, storeVars, procVars, work, now, conf>>

\* Cache.DeleteMany: c.Delete for every key of the slice, in its order.
RECURSIVE CacheDeleteMany(_, _, _, _)
CacheDeleteMany(keys, st, h, t) ==
    IF keys = <<>> THEN [storage |-> st, count |-> 0]
    ELSE LET r == CacheDelete(st, h, Head(keys), t)
             rest == CacheDeleteMany(Tail(keys), r.storage, h, t) IN
         [rest EXCEPT !.count = @ + Count(r.ret)]

DoDeleteMany(keys) ==
    /\ conf.obj = "cache" /\ last = NoCall
    /\ LET r == CacheDeleteMany(keys, storage, heap, now)
           given == {keys[i] : i \in DOMAIN keys} IN
           /\ storage' = r.storage
           /\ heap' = Collect(heap, r.storage)
           /\ setAt' = [k \in DOMAIN setAt |-> IF k \in given THEN ZeroTime ELSE setAt[k]]
           /\ written' = [k \in DOMAIN written |->
                             IF k \in given THEN Deleted(written[k]) ELSE written[k]]
           /\ last' = BulkCall("DeleteMany", given, keys, r.count, <<>>)
           /\ UNCHANGED <<refreshVars, futVars, storeVars, procVars, work, now, conf>>


\* --- the reads of the whole Cache, each under one read lock; order is the
\* order in which the range visits storage.
CacheLen(st, h, t) == Cardinality({k \in DOMAIN st : CvHas(h[st[k]], t)})

CacheKeysOf(order, st, h, t) ==
    LET Kept(k) == CvHas(h[st[k]], t) IN SelectSeq(order, Kept)

CacheValues(order, st, h, t) ==
    LET Kept(k) == CvGetNoDefault(h[st[k]], t).ok
        kept == SelectSeq(order, Kept) IN
    [i \in DOMAIN kept |-> CvGetNoDefault(h[st[kept[i]]], t).val]

\* Cache.Range: the pairs handed to fn; fn returns more, so the range breaks
\* after the first pair when more is false.
CacheRange(order, more, st, h, t) ==
    LET Kept(k) == CvGetNoDefault(h[st[k]], t).ok
        kept == SelectSeq(order, Kept)
        pairs == [i \in DOMAIN kept |-> <<kept[i], CvGetNoDefault(h[st[kept[i]]], t).val>>] IN
    IF more \/ pairs = <<>> THEN pairs ELSE <<pairs[1]>>

Unchanged == UNCHANGED <<refreshVars, futVars, storeVars, procVars, work, now, heap, storage, conf, setAt, written>>

DoGetNoDefault(key) ==
    /\ conf.obj = "cache" /\ last = NoCall
    /\ LET r == CacheGetNoDefault(storage, heap, key, now) IN
           last' = Call("GetNoDefault", key, r.val, r.ok, "nil", FALSE, 0)
    /\ Unchanged

DoHas(key) ==
    /\ conf.obj = "cache" /\ last = NoCall
    /\ last' = Call("Has", key, ZeroValue, CacheHas(storage, heap, key, now), "nil", FALSE, 0)
    /\ Unchanged

DoLen ==
    /\ conf.obj = "cache" /\ last = NoCall
    /\ last' = BulkCall("Len", {}, <<>>, CacheLen(storage, heap, now), <<>>)
    /\ Unchanged

DoKeys ==
    /\ conf.obj = "cache" /\ last = NoCall
    /\ \E order \in Perms(DOMAIN storage) :
          last' = BulkCall("Keys", {}, <<>>, 0, CacheKeysOf(order, storage, heap, now))
    /\ Unchanged

DoValues ==
    /\ conf.obj = "cache" /\ last = NoCall
    /\ \E order \in Perms(DOMAIN storage) :
          last' = BulkCall("Values", {}, <<>>, 0, CacheValues(order, storage, heap, now))
    /\ Unchanged

DoRange(more) ==
    /\ conf.obj = "cache" /\ last = NoCall
    /\ \E order \in Perms(DOMAIN storage) :
          last' = [BulkCall("Range", {}, <<>>, 0,
                            CacheRange(order, more, storage, heap, now)) EXCEPT !.ok = more]
    /\ Unchanged

\* ------------------------------------------ one Cache, several goroutines
MaxWorkers == 2      \* goroutines that call one Cache at the same time

Workers == 1..MaxWorkers
\* Entries for every key, and for every goroutine holding one that left storage.
SharedIds == 1..(Cardinality(CacheKeys) + MaxWorkers)

\* pc: "idle" (no call yet), "create" (the look under RLock missed), "have"
\* (getCacheValue returned cv), "gen" (GetDefault read no value), "delete"
\* (Delete holds c.mu and has read cv.Has()), "done" (the call returned ok).
\* how: "hit", "found" or "made", the way getCacheValue came by cv; err: the
\* generator failed; rank: the calls that had returned when this one did.
IdleWork ==
    [pc |-> "idle", op |-> "none", key |-> "", val |-> ZeroValue, cv |-> 0, ok |-> FALSE,
     how |-> "none", err |-> FALSE, rank |-> 0]

\* NewCache(0, 0, nil, d) shared by the goroutines, each of which makes one call.
InitShared ==
    /\ now = 0
    /\ storage = EmptyMap
    /\ \E d \in BOOLEAN : conf = [obj |-> "cache", timeout |-> 0, defaultFn |-> d]
    /\ heap = [e \in SharedIds |-> FreeEntry]
    /\ setAt = EmptyMap
    /\ written = EmptyMap
    /\ last = EmptyMap
    /\ work = [w \in Workers |-> IdleWork]

SharedOthers ==
    UNCHANGED <<refreshVars, futVars, storeVars, procVars, now, conf, setAt, written, last>>

\* c.mu is free unless a Delete is between its Lock and its deferred Unlock.
MuFree == \A w \in Workers : work[w].pc # "delete"
\* The entries some goroutine has a pointer to.
Held(wk) == {wk[w].cv : w \in {x \in Workers : wk[x].pc \in {"have", "gen", "delete"}}}
\* Entries neither in storage nor pointed to are garbage.
CollectShared(h, st, wk) ==
    [e \in SharedIds |-> IF e \in Range(st) \cup Held(wk) THEN h[e] ELSE FreeEntry]
CallsReturned == Cardinality({w \in Workers : work[w].pc = "done"})
Return(w, ok, err) ==
    [work[w] EXCEPT !.pc = "done", !.ok = ok, !.err = err, !.cv = 0, !.rank = CallsReturned]

\* Cache.Set(key, w) or Cache.GetDefault(key) is called; getCacheValue looks
\* the key up under RLock and returns the entry when there is one.
GetCacheValueRLock(w, op, key) ==
    /\ work[w].pc = "idle"
    /\ MuFree
    /\ work' = [work EXCEPT ![w] =
                  IF key \in DOMAIN storage
                  THEN [@ EXCEPT !.op = op, !.key = key, !.val = w, !.pc = "have",
                                 !.cv = storage[key], !.how = "hit"]
                  ELSE [@ EXCEPT !.op = op, !.key = key, !.val = w, !.pc = "create"]]
    /\ UNCHANGED <<storage, heap>>
    /\ SharedOthers

\* Mutant: the second look is left out.
StillAbsentUnchecked(st, key) == TRUE
\* getCacheValue's second look, under the write lock.
StillAbsent(st, key) == key \notin DOMAIN st

\* getCacheValue after a miss: under Lock, the second look, then the creation.
GetCacheValueLock(w) ==
    /\ work[w].pc = "create"
    /\ MuFree
    /\ LET key  == work[w].key
           free == SharedIds \ (Range(storage) \cup Held(work)) IN
       IF StillAbsent(storage, key)
       THEN /\ free # {}
            /\ LET e == CHOOSE x \in free : \A y \in free : x <= y IN
                  /\ storage' = [k \in DOMAIN storage \cup {key} |->
                                    IF k = key THEN e ELSE storage[k]]
                  /\ heap' = [heap EXCEPT ![e] = NewCacheValue(conf.timeout, FALSE)]
                  /\ work' = [work EXCEPT ![w] = [@ EXCEPT !.pc = "have", !.cv = e,
                                                            !.how = "made"]]
       ELSE /\ work' = [work EXCEPT ![w] = [@ EXCEPT !.pc = "have", !.cv = storage[key],
                                                      !.how = "found"]]
            /\ UNCHANGED <<storage, heap>>
    /\ SharedOthers

\* Cache.Set: cv.Set(value) on the entry getCacheValue returned.
SetStore(w) ==
    /\ work[w].pc = "have" /\ work[w].op = "Set"
    /\ LET r == CvSet(heap[work[w].cv], work[w].val, now) IN
          /\ work' = [work EXCEPT ![w] = Return(w, r.ret, FALSE)]
          /\ heap' = CollectShared([heap EXCEPT ![work[w].cv] = r.cv], storage, work')
    /\ UNCHANGED storage
    /\ SharedOthers

\* Cache.GetDefault: cv.GetNoDefault() on the entry getCacheValue returned.
GetDefaultRead(w) ==
    /\ work[w].pc = "have" /\ work[w].op = "GetDefault"
    /\ LET got == CvGetNoDefault(heap[work[w].cv], now) IN
          work' = [work EXCEPT ![w] =
                     IF ~conf.defaultFn \/ got.ok
                     THEN [Return(w, got.ok, FALSE) EXCEPT !.val = got.val]
                     ELSE [@ EXCEPT !.pc = "gen"]]
    /\ heap' = CollectShared(heap, storage, work')
    /\ UNCHANGED storage
    /\ SharedOthers

\* Cache.GetDefault: defaultFn(key) returns, and cv.Set(val) when it did not fail.
GetDefaultStore(w, gen) ==
    /\ work[w].pc = "gen"
    /\ work' = [work EXCEPT ![w] =
                  [Return(w, FALSE, gen.err) EXCEPT !.val = IF gen.err THEN ZeroValue ELSE w]]
    /\ heap' = CollectShared(IF gen.err THEN heap
                             ELSE [heap EXCEPT ![work[w].cv] = CvSet(@, w, now).cv],
                             storage, work')
    /\ UNCHANGED storage
    /\ SharedOthers

\* Cache.Delete up to cv.Has(): Lock, the lookup, and the answer of the entry.
DeleteHas(w, key) ==
    /\ work[w].pc = "idle"
    /\ MuFree
    /\ work' = [work EXCEPT ![w] =
                  IF key \notin DOMAIN storage
                  THEN [Return(w, FALSE, FALSE) EXCEPT !.op = "Delete", !.key = key]
                  ELSE [@ EXCEPT !.op = "Delete", !.key = key, !.pc = "delete",
                                 !.cv = storage[key],
                                 !.ok = CvHas(heap[storage[key]], now)]]
    /\ UNCHANGED <<storage, heap>>
    /\ SharedOthers

\* Cache.Delete from delete(c.storage, key) on: the key goes, the lock is released.
DeleteRemove(w) ==
    /\ work[w].pc = "delete"
    /\ storage' = [k \in DOMAIN storage \ {work[w].key} |-> storage[k]]
    /\ work' = [work EXCEPT ![w] = Return(w, work[w].ok, FALSE)]
    /\ heap' = CollectShared(heap, storage', work')
    /\ SharedOthers

\* ------------------------------------------------------------- StoreSink
DataKeys   == {"x", "y"}
DataValues == {1, 2}
Datasets   == UNION {[S -> DataValues] : S \in SUBSET DataKeys}
Strategies == {"StrategyReplace", "StrategyMerge", "StrategyUpsertOnly", "StrategyIncremental"}

\* Mutant: the map is kept where Replace makes a new one.
MakeMapKeepsOld(m) == m
\* s.store.m = make(map[K]V, len(data))
MakeMap(m) == EmptyMap

\* Mutant: a key the map holds keeps its value.
UpsertKeepsOld(m, data) ==
    [k \in DOMAIN m \cup DOMAIN data |-> IF k \in DOMAIN m THEN m[k] ELSE data[k]]
\* for k, v := range data { s.store.m[k] = v }
Upsert(m, data) ==
    [k \in DOMAIN m \cup DOMAIN data |-> IF k \in DOMAIN data THEN data[k] ELSE m[k]]

\* StoreSink.Apply: the map of the store after it.
SinkApply(m, strat, data) ==
    CASE strat = "StrategyReplace" -> Upsert(MakeMap(m), data)
      [] strat \in {"StrategyMerge", "StrategyUpsertOnly"} -> Upsert(m, data)
      [] strat = "StrategyIncremental" -> Upsert(m, data)

NoApply == [data |-> EmptyMap, before |-> EmptyMap, done |-> FALSE]

\* NewStoreSink(NewStore(m), strategy)
InitSink ==
    /\ sinkStore \in Datasets
    /\ strategy \in Strategies
    /\ lastApply = NoApply

\* The sink of a behaviour that makes no use of it.
InitNoSink ==
    /\ sinkStore = EmptyMap
    /\ strategy = "StrategyReplace"
    /\ lastApply = EmptyMap

DoApply(data) ==
    /\ sinkStore' = SinkApply(sinkStore, strategy, data)
    /\ lastApply' = [data |-> data, before |-> sinkStore, done |-> TRUE]
    /\ UNCHANGED <<futVars, storeVars, procVars, cacheVars, updVars, chainVars, strategy>>

\* --------------------------------------------------------------- Updater
MaxStarts == 2       \* calls of Start and StartSync in one behaviour
CallIds == 1..MaxStarts

NoLoop == [pc |-> "none", tick |-> FALSE, elapsed |-> FALSE, cycled |-> FALSE]
NoStart == [op |-> "none", outcome |-> "none", fetched |-> 0, applied |-> 0]
NCalls == Cardinality({c \in CallIds : starts[c].op # "none"})

\* NewUpdater(source, sink, interval)
InitUpdater ==
    /\ uctx = 0
    /\ canceled = {}
    /\ wg = 0
    /\ loop = [c \in CallIds |-> NoLoop]
    /\ ctl = [pc |-> "idle", last |-> "none"]
    /\ starts = [c \in CallIds |-> NoStart]
    /\ meta \in [lastSuccess : {ZeroTime}, lastError : {"nil"},
                 onSuccess : BOOLEAN, onError : BOOLEAN,
                 err : {"none"}, called : {"none"}]

UpdOthers == UNCHANGED <<futVars, storeVars, procVars, cacheVars, sinkVars, chainVars>>

\* u.wg.Add(1); go u.run()
Spawn(c) ==
    /\ wg' = wg + 1
    /\ loop' = [loop EXCEPT ![c] = [NoLoop EXCEPT !.pc = "start"]]

\* Updater.Start
Start ==
    /\ ctl.pc = "idle" /\ NCalls < MaxStarts
    /\ LET c == NCalls + 1 IN
           /\ uctx' = c
           /\ Spawn(c)
           /\ starts' = [starts EXCEPT ![c] = [NoStart EXCEPT !.op = "Start", !.outcome = "ok"]]
    /\ ctl' = [pc |-> "idle", last |-> "Start"]
    /\ UNCHANGED <<canceled, meta>>
    /\ UpdOthers

\* Updater.StartSync up to the call of the fetch chain in updateOnce.
StartSyncBegin ==
    /\ ctl.pc = "idle" /\ NCalls < MaxStarts
    /\ LET c == NCalls + 1 IN
           /\ uctx' = c
           /\ starts' = [starts EXCEPT ![c] =
                           [NoStart EXCEPT !.op = "StartSync", !.outcome = "running"]]
    /\ ctl' = [pc |-> "sync_fetch", last |-> "StartSync"]
    /\ UNCHANGED <<canceled, wg, loop, meta>>
    /\ UpdOthers

\* Mutant: setLastSuccess leaves lastError as it is.
SetLastSuccessKeepsError(m, t) == [m EXCEPT !.lastSuccess = t]
\* setLastSuccess: u.lastSuccess = time.Now(); u.lastError = nil
SetLastSuccess(m, t) == [m EXCEPT !.lastSuccess = t, !.lastError = "nil"]
\* Mutant: setLastError resets lastSuccess.
SetLastErrorClearsSuccess(m, err) == [m EXCEPT !.lastError = err, !.lastSuccess = ZeroTime]
\* setLastError: u.lastError = err
SetLastError(m, err) == [m EXCEPT !.lastError = err]
\* if u.onError != nil { u.onError(err) }
OnError(m) == [m EXCEPT !.called = IF m.onError THEN "onError" ELSE "none"]
\* if u.onSuccess != nil { u.onSuccess(data) }
OnSuccess(m) == [m EXCEPT !.called = IF m.onSuccess THEN "onSuccess" ELSE "none"]
\* updateOnce from the error err of the fetch or of Sink.Apply to return err.
UpdateFailed(m, err) == [OnError(SetLastError(m, err)) EXCEPT !.err = err]
\* updateOnce from the success of Sink.Apply to return nil.
UpdateSucceeded(m, t) == [OnSuccess(SetLastSuccess(m, t)) EXCEPT !.err = "nil"]

\* Mutant: StartSync takes no notice of the error of updateOnce.
SyncIgnoresError(err) == FALSE
\* if err := u.updateOnce(u.ctx); err != nil
SyncFailed(err) == err

\* What StartSync does once updateOnce has returned err: cancel and the error,
\* or the goroutine and nil.
SyncReturn(c, err) ==
    /\ IF SyncFailed(err)
       THEN /\ canceled' = canceled \cup {c}
            /\ UNCHANGED <<wg, loop>>
       ELSE /\ Spawn(c)
            /\ UNCHANGED canceled
    /\ ctl' = [ctl EXCEPT !.pc = "idle"]

\* The fetch of the updateOnce of StartSync returns; its error ends updateOnce.
SyncFetch(err) ==
    /\ ctl.pc = "sync_fetch"
    /\ IF err
       THEN /\ starts' = [starts EXCEPT ![uctx].fetched = 1, ![uctx].outcome = "err"]
            /\ meta' = UpdateFailed(meta, "fetch")
            /\ SyncReturn(uctx, TRUE)
       ELSE /\ starts' = [starts EXCEPT ![uctx].fetched = 1]
            /\ ctl' = [ctl EXCEPT !.pc = "sync_apply"]
            /\ UNCHANGED <<canceled, wg, loop, meta>>
    /\ UNCHANGED uctx
    /\ UpdOthers

\* The Apply of the updateOnce of StartSync returns, and so does updateOnce.
SyncApply(err) ==
    /\ ctl.pc = "sync_apply"
    /\ starts' = [starts EXCEPT ![uctx].applied = 1,
                              ![uctx].outcome = IF err THEN "err" ELSE "ok"]
    /\ meta' = IF err THEN UpdateFailed(meta, "apply") ELSE UpdateSucceeded(meta, now)
    /\ SyncReturn(uctx, err)
    /\ UNCHANGED uctx
    /\ UpdOthers

\* Updater.Stop up to u.wg.Wait().
StopBegin ==
    /\ ctl.pc = "idle"
    /\ canceled' = IF uctx # 0 THEN canceled \cup {uctx} ELSE canceled
    /\ ctl' = [pc |-> "stop_wait", last |-> "Stop"]
    /\ UNCHANGED <<uctx, wg, loop, starts, meta>>
    /\ UpdOthers

\* Mutant: Wait returns whatever the counter.
WaitNever(w) == TRUE
\* u.wg.Wait() returns when the counter is zero.
WaitDone(w) == w = 0

StopReturn ==
    /\ ctl.pc = "stop_wait"
    /\ WaitDone(wg)
    /\ ctl' = [ctl EXCEPT !.pc = "idle"]
    /\ UNCHANGED <<uctx, canceled, wg, loop, starts, meta>>
    /\ UpdOthers

\* Mutant: the ticker fires when it is made.
NewTickerFired(c) == TRUE
\* time.NewTicker(u.interval): nothing in ticker.C until an interval has elapsed.
NewTicker(c) == FALSE

\* run() up to its loop.
LoopNewTicker(c) ==
    /\ loop[c].pc = "start"
    /\ loop' = [loop EXCEPT ![c].pc = "select", ![c].tick = NewTicker(c)]
    /\ UNCHANGED <<uctx, canceled, wg, ctl, starts, meta>>
    /\ UpdOthers

\* An interval of the ticker of run() elapses; ticker.C holds one tick at most.
Elapse(c) ==
    /\ loop[c].pc \in {"select", "fetch", "apply"}
    /\ ~loop[c].tick
    /\ loop' = [loop EXCEPT ![c].tick = TRUE, ![c].elapsed = TRUE]
    /\ UNCHANGED <<uctx, canceled, wg, ctl, starts, meta>>
    /\ UpdOthers

\* Mutant: the case of the ticker is ready whether it has fired or not.
TickAlways(c) == TRUE
\* case <-ticker.C is ready when the channel holds a tick.
TickReady(c) == loop[c].tick

\* case <-ticker.C: u.update()
LoopTick(c) ==
    /\ loop[c].pc = "select" /\ TickReady(c)
    /\ loop' = [loop EXCEPT ![c].pc = "fetch", ![c].tick = FALSE, ![c].cycled = TRUE]
    /\ UNCHANGED <<uctx, canceled, wg, ctl, starts, meta>>
    /\ UpdOthers

\* The contexts run() of call c may find in u.ctx, which it reads while a
\* later Start or StartSync may be writing it.
SeenCtx(c) == c..uctx

\* case <-u.ctx.Done() is ready when the context read from u.ctx is canceled.
CtxDone(c) == \E seen \in SeenCtx(c) : seen \in canceled

\* case <-u.ctx.Done(): return, then ticker.Stop() and u.wg.Done()
LoopExit(c) ==
    /\ loop[c].pc = "select"
    /\ CtxDone(c)
    /\ loop' = [loop EXCEPT ![c].pc = "exited", ![c].tick = FALSE]
    /\ wg' = wg - 1
    /\ UNCHANGED <<uctx, canceled, ctl, starts, meta>>
    /\ UpdOthers

\* The fetch of the updateOnce of update() returns; its error ends the cycle.
LoopFetch(c, err) ==
    /\ loop[c].pc = "fetch"
    /\ loop' = [loop EXCEPT ![c].pc = IF err THEN "select" ELSE "apply"]
    /\ meta' = IF err THEN UpdateFailed(meta, "fetch") ELSE meta
    /\ UNCHANGED <<uctx, canceled, wg, ctl, starts>>
    /\ UpdOthers

\* The Apply of the updateOnce of update() returns, and the cycle ends.
LoopApply(c, err) ==
    /\ loop[c].pc = "apply"
    /\ loop' = [loop EXCEPT ![c].pc = "select"]
    /\ meta' = IF err THEN UpdateFailed(meta, "apply") ELSE UpdateSucceeded(meta, now)
    /\ UNCHANGED <<uctx, canceled, wg, ctl, starts>>
    /\ UpdOthers

\* Time passes for the Updater: time.Now() in setLastSuccess reads the clock.
UpdaterTick ==
    /\ now < MaxTime
    /\ now' = now + 1
    /\ UNCHANGED <<heap, storage, conf, setAt, written, last, work>>
    /\ UNCHANGED <<futVars, storeVars, procVars, refreshVars>>

\* ------------------------------------------------------- the fetch chain
MaxMw == 3           \* middlewares one Updater is given
MwNames == {"m1", "m2", "m3"}
MwLists == UNION {[1..n -> MwNames] : n \in 1..2}

\* A FetchFunc: source.Fetch, or what middleware name makes of the FetchFunc next.
SourceFetch == [kind |-> "source"]
Wrap(name, next) == [kind |-> "mw", name |-> name, next |-> next]

\* Mutant: the loop runs from the first middleware to the last.
WrapOrderForward(n) == [i \in 1..n |-> i]
\* for i := len(u.middlewares) - 1; i >= 0; i--: the indices in the order visited
WrapOrder(n) == [i \in 1..n |-> n + 1 - i]

\* Updater.buildFetchChain: fetchFunc = u.middlewares[i](fetchFunc) for the
\* indices of order, from fetchFunc.
RECURSIVE WrapAll(_, _, _)
WrapAll(order, mws, fetchFunc) ==
    IF order = <<>> THEN fetchFunc
    ELSE WrapAll(Tail(order), mws, Wrap(mws[Head(order)], fetchFunc))
BuildFetchChain(mws) == WrapAll(WrapOrder(Len(mws)), mws, SourceFetch)

\* What a call of a FetchFunc does, each middleware calling the FetchFunc it
\* wraps once: who sees the call, and who sees the result, in order.
RECURSIVE CallLog(_)
CallLog(f) ==
    IF f.kind = "source" THEN << <<"fetch", "source">> >>
    ELSE << <<"call", f.name>> >> \o CallLog(f.next) \o << <<"result", f.name>> >>

NoFetch == [done |-> FALSE, mws |-> <<>>, log |-> <<>>]

InitChain ==
    /\ middlewares = <<>>
    /\ lastFetch = NoFetch

\* Updater.WithMiddleware
WithMiddleware(mw) ==
    /\ Len(middlewares) + Len(mw) <= MaxMw
    /\ middlewares' = middlewares \o mw
    /\ UNCHANGED <<futVars, storeVars, procVars, cacheVars, sinkVars, updVars, lastFetch>>

\* fetchFunc := u.buildFetchChain(); data, err := fetchFunc(ctx)
CallFetchChain ==
    /\ lastFetch' = [done |-> TRUE, mws |-> middlewares,
                     log |-> CallLog(BuildFetchChain(middlewares))]
    /\ UNCHANGED <<futVars, storeVars, procVars, cacheVars, sinkVars, updVars, middlewares>>

\* The refresher of a behaviour that makes no use of it.
InitNoUpdater ==
    /\ uctx = 0
    /\ canceled = {}
    /\ wg = 0
    /\ loop = EmptyMap
    /\ ctl = EmptyMap
    /\ starts = EmptyMap
    /\ meta = EmptyMap

\* The fetch chain of a behaviour that makes no use of it.
InitNoChain ==
    /\ middlewares = <<>>
    /\ lastFetch = EmptyMap

InitNoRefresh == InitNoSink /\ InitNoUpdater /\ InitNoChain

\* The futures, the dedup table and their goroutines in a behaviour that has
\* none of them.
InitNoFutures ==
    /\ resultCh = EmptyMap
    /\ done = EmptyMap
    /\ hasResult = EmptyMap
    /\ result = EmptyMap
    /\ subs = EmptyMap
    /\ nextID = EmptyMap
    /\ mu = EmptyMap
    /\ prod = EmptyMap
    /\ fnpc = EmptyMap
    /\ nFut = 0
    /\ store = EmptyMap
    /\ fkey = EmptyMap
    /\ handlerCalls = EmptyMap
    /\ handlerArg = EmptyMap
    /\ afterEvict = EmptyMap
    /\ proc = EmptyMap
    /\ ch = EmptyMap

\* ---------------------------------------------------------- specifications
\* One future handed to ResultWaiterFactory, as in the tests.
InitFuture ==
    /\ resultCh = [f \in FutIds |-> NewChan]
    /\ done = [f \in FutIds |-> FALSE]
    /\ hasResult = [f \in FutIds |-> FALSE]
    /\ result = [f \in FutIds |-> ZeroResult]
    /\ subs = [f \in FutIds |-> EmptyMap]
    /\ nextID = [f \in FutIds |-> 0]
    /\ mu = [f \in FutIds |-> FALSE]
    /\ prod = [f \in FutIds |-> IF f = 1 THEN [IdleProd EXCEPT !.pc = "recv"] ELSE IdleProd]
    /\ fnpc = [f \in FutIds |-> "none"]
    /\ nFut = 1
    /\ InitStore
    /\ InitProcs
    /\ InitNoCache
    /\ InitNoRefresh

Waiter(p) ==
    \/ WaiterCall(p)
    \/ WaiterRecv(p)
    \/ WaiterCtxDone(p)
    \/ WaiterUnsub(p)
    \/ Cancel(p)

Producer(f) ==
    \/ ProducerRecv(f)
    \/ ProducerNotify(f)
    \/ ProducerUnlock(f)

NextFuture ==
    \/ \E v \in TestResults : EnvSend(1, v)
    \/ EnvClose(1)
    \/ \E p \in Clients : CallerStart(p, 1)
    \/ \E p \in Clients : Waiter(p) \/ ClientDone(p)
    \/ Producer(1)

SpecFuture == InitFuture /\ [][NextFuture]_vars

\* The same under the scheduling of goroutines: a goroutine that can take a
\* step takes one. The producer goroutine runs on whenever it can; a waiter
\* call goes on once mu is free or a case of its select is ready. Nothing
\* obliges the environment to send, to close, to call or to cancel.
WaiterProceeds(p) == WaiterCall(p) \/ WaiterRecv(p) \/ WaiterCtxDone(p) \/ WaiterUnsub(p)
FairFuture ==
    /\ WF_vars(Producer(1))
    /\ \A p \in Clients : WF_vars(WaiterProceeds(p))

\* Each client makes one call and is gone, so that the behaviours are few
\* enough for their infinite continuations to be examined.
NextFutureLive ==
    \/ \E v \in TestResults : EnvSend(1, v)
    \/ EnvClose(1)
    \/ \E p \in Clients : CallerStart(p, 1)
    \/ \E p \in Clients : Waiter(p) \/ ClientExit(p)
    \/ Producer(1)

SpecFutureLive == InitFuture /\ [][NextFutureLive]_vars /\ FairFuture

\* The dedup table: clients look a key up and, told it is absent, start its
\* computation.
InitDedup == InitFutures /\ InitStore /\ InitProcs /\ InitNoCache /\ InitNoRefresh

NextDedup ==
    \/ \E p \in Clients, k \in Keys : ClientGet(p, k)
    \/ \E p \in Clients : ClientWaitResult(p) \/ ClientStoreSet(p) \/ ClientExit(p)
    \/ \E p \in Procs : Waiter(p)
    \/ \E f \in FutIds : Producer(f) \/ FnReturn(f)
    \/ \E f \in FutIds : HandlerInvoke(f) \/ HandlerSkip(f) \/ HandlerEvict(f)

SpecDedup == InitDedup /\ [][NextDedup]_vars

\* One caller working on a CacheValue and on a Cache while time passes.
InitCacheSpec == InitNoFutures /\ InitCache /\ InitNoRefresh

NextCache ==
    \/ Tick
    \/ Forget
    \/ \E v \in Values : DoCvSet(v)
    \/ DoCvDelete
    \/ \E gen \in GenOutcomes : DoCvGetDefault(gen) \/ DoCvUpdate(gen)
    \/ \E key \in CacheKeys, v \in Values : DoSet(key, v)
    \/ \E key \in CacheKeys : DoDelete(key)
    \/ \E S \in SUBSET CacheKeys : \E items \in [S -> Values] : DoSetMany(items)
    \/ \E keys \in SeqsUpTo(CacheKeys, MaxBatch) : DoDeleteMany(keys)
    \/ \E key \in CacheKeys : DoGetNoDefault(key) \/ DoHas(key)
    \/ DoLen
    \/ DoKeys
    \/ DoValues
    \/ \E more \in BOOLEAN : DoRange(more)
    \/ \E key \in CacheKeys, gen \in GenOutcomes : DoGetDefault(key, gen) \/ DoUpdate(key, gen)

SpecCache == InitCacheSpec /\ [][NextCache]_vars

\* Goroutines that each make one call of Set, GetDefault or Delete on one Cache.
InitSharedSpec == InitNoFutures /\ InitShared /\ InitNoRefresh

NextShared ==
    \/ \E w \in Workers, key \in CacheKeys :
          GetCacheValueRLock(w, "Set", key) \/ GetCacheValueRLock(w, "GetDefault", key)
    \/ \E w \in Workers : GetCacheValueLock(w)
    \/ \E w \in Workers : SetStore(w)
    \/ \E w \in Workers : GetDefaultRead(w)
    \/ \E w \in Workers, gen \in GenOutcomes : GetDefaultStore(w, gen)
    \/ \E w \in Workers, key \in CacheKeys : DeleteHas(w, key)
    \/ \E w \in Workers : DeleteRemove(w)

SpecShared == InitSharedSpec /\ [][NextShared]_vars

\* A StoreSink to which one dataset after another is applied.
InitSinkSpec ==
    InitNoFutures /\ InitNoCache /\ InitSink /\ InitNoUpdater /\ InitNoChain

NextSink == \E data \in Datasets : DoApply(data)

SpecSink == InitSinkSpec /\ [][NextSink]_vars

\* One Updater, the caller of its Start, StartSync and Stop, and its goroutines.
InitUpdaterSpec ==
    InitNoFutures /\ InitNoCache /\ InitNoSink /\ InitUpdater /\ InitNoChain

Run(c) ==
    \/ LoopNewTicker(c)
    \/ Elapse(c)
    \/ LoopTick(c)
    \/ LoopExit(c)
    \/ \E err \in BOOLEAN : LoopFetch(c, err) \/ LoopApply(c, err)

NextUpdater ==
    \/ Start
    \/ StartSyncBegin
    \/ \E err \in BOOLEAN : SyncFetch(err) \/ SyncApply(err)
    \/ StopBegin
    \/ StopReturn
    \/ \E c \in CallIds : Run(c)

SpecUpdater == InitUpdaterSpec /\ [][NextUpdater]_vars

\* One Updater started once, by Start or by StartSync, its cycles and the clock.
FirstStart == NCalls = 0 /\ Start
FirstStartSync == NCalls = 0 /\ StartSyncBegin

NextCycle ==
    \/ FirstStart
    \/ FirstStartSync
    \/ \E err \in BOOLEAN : SyncFetch(err) \/ SyncApply(err)
    \/ StopBegin
    \/ StopReturn
    \/ UpdaterTick
    \/ \E c \in CallIds : Run(c)

SpecCycle == InitUpdaterSpec /\ [][NextCycle]_vars

\* An Updater that is given middlewares and calls its fetch chain.
InitChainSpec ==
    InitNoFutures /\ InitNoCache /\ InitNoSink /\ InitNoUpdater /\ InitChain

NextChain ==
    \/ \E mw \in MwLists : WithMiddleware(mw)
    \/ CallFetchChain

SpecChain == InitChainSpec /\ [][NextChain]_vars

\* ================================================================== claims
\* The outcome of future f as its producer recorded it.
Outcome(f) == [res |-> result[f], ok |-> hasResult[f]]
Returned(p) == proc[p].pc = "returned"
FutOf(p) == proc[p].fut

\* C1: a request for key K that arrives (looks K up) while a computation for K
\* is in flight joins it and launches no second producer: no client that found
\* a computation of its key in flight goes on to run WaitResult.
C1_SingleFlight ==
    \A p \in Clients : proc[p].pc = "set" => ~proc[p].arrivedInFlight

\* C2: when the producer's channel carried the result X, every waiter whose
\* context was never canceled returns (X, true), whether it subscribed while
\* the future was pending or called after completion.
C2_AllWaitersGetResult ==
    \A p \in Procs :
        (Returned(p) /\ ~proc[p].canceled /\ resultCh[FutOf(p)].sent # <<>>)
            => proc[p].ret = [res |-> resultCh[FutOf(p)].sent[1], ok |-> TRUE]

\* Two clients with live contexts have returned (X, true): one had subscribed,
\* the other came after completion.
C2_Witness ==
    \E p, q \in Clients :
        /\ Returned(p) /\ Returned(q)
        /\ ~proc[p].canceled /\ ~proc[q].canceled
        /\ proc[p].registered /\ ~proc[q].registered
        /\ proc[p].ret.ok /\ proc[q].ret.ok
        /\ proc[p].ret.res = [Result |-> 42, Error |-> 0]

\* C3 as stated: a waiter that subscribed while the future was pending and
\* whose context was canceled before the producer completed returns the zero
\* Result with ok = false.
C3_CanceledGetsNoResult ==
    \A p \in Procs :
        (Returned(p) /\ proc[p].registered /\ proc[p].canceledPending)
            => proc[p].ret = NoRet

\* C3 amended: such a waiter returns the zero Result with ok = false, or, when
\* the producer has completed by the time it returns, the producer's outcome.
C3_CanceledGetsNoResultOrOutcome ==
    \A p \in Procs :
        (Returned(p) /\ proc[p].registered /\ proc[p].canceledPending)
            => \/ proc[p].ret = NoRet
               \/ proc[p].doneAtReturn /\ proc[p].ret = Outcome(FutOf(p))

\* A waiter canceled while the future was pending has returned no result
\* although the future is completed with a result by now.
C3_Witness ==
    \E p \in Clients :
        /\ Returned(p) /\ proc[p].registered /\ proc[p].canceledPending
        /\ proc[p].ret = NoRet
        /\ hasResult[FutOf(p)]

\* C4: cancellation is local. The step in which a canceled waiter returns
\* removes its own subscription from subs and nothing else: the outcome, the
\* producer, its channel and every other caller are left as they were; and the
\* waiters with live contexts return the producer's outcome all the same.
Delivered(f) ==
    IF resultCh[f].sent # <<>> THEN [res |-> resultCh[f].sent[1], ok |-> TRUE] ELSE NoRet
CancelReturns(p) == proc[p].pc = "ctxdone" /\ proc'[p].pc = "returned"
C4_CancelStepIsLocal ==
    \A p \in Procs :
        CancelReturns(p) =>
            /\ subs' = [subs EXCEPT ![FutOf(p)] =
                          [i \in DOMAIN @ \ {proc[p].id} |-> @[i]]]
            /\ UNCHANGED <<resultCh, done, hasResult, result, nextID, mu, prod, ch>>
            /\ \A q \in Procs \ {p} : proc'[q] = proc[q]
C4_OthersUnaffected ==
    \A q \in Procs :
        (Returned(q) /\ ~proc[q].canceled)
            => /\ done[FutOf(q)]
               /\ proc[q].ret = Outcome(FutOf(q))
               /\ proc[q].ret = Delivered(FutOf(q))
C4_CancellationIsLocal == [][C4_CancelStepIsLocal]_vars /\ []C4_OthersUnaffected

\* One waiter has returned through its canceled context and another, which
\* had subscribed too, has returned the result.
C4_Witness ==
    \E p, q \in Clients :
        /\ Returned(p) /\ proc[p].canceled /\ proc[p].registered /\ proc[p].ret = NoRet
        /\ Returned(q) /\ ~proc[q].canceled /\ proc[q].registered /\ proc[q].ret.ok

\* C5: when resultCh is closed without ever carrying a value, every waiter
\* returns the zero Result with ok = false, and none returns ok = true.
ClosedWithoutValue(f) == resultCh[f].closed /\ resultCh[f].sent = <<>>
C5_AbsenceOutcome ==
    \A p \in Procs :
        (Returned(p) /\ ClosedWithoutValue(FutOf(p))) => proc[p].ret = NoRet

\* After a close without a value two waiters with live contexts have returned
\* ok = false: one had subscribed before the close, one called afterwards.
C5_Witness ==
    \E p, q \in Clients :
        /\ Returned(p) /\ Returned(q)
        /\ ClosedWithoutValue(FutOf(p))
        /\ ~proc[p].canceled /\ ~proc[q].canceled
        /\ proc[p].registered /\ ~proc[q].registered
        /\ FutOf(p) = FutOf(q)

\* C6: the handler of a StoreResultWaiter call is invoked once, with the final
\* outcome of the call's computation, and the key is in the Store for as long
\* as the handler runs.
C6_HandlerBeforeEviction ==
    \A f \in FutIds :
        /\ handlerCalls[f] <= 1
        /\ proc[HandlerOf(f)].pc = "handler" =>
              /\ handlerCalls[f] = 1
              /\ handlerArg[f] = Outcome(f)
              /\ fkey[f] \in DOMAIN store

\* C7: a request issued after the eviction of key K's computation is a fresh
\* one. The eviction step leaves K absent from the Store; a lookup joins only
\* the future the Store holds at that moment and otherwise reports no key; the
\* future started after an eviction is a new one, and whoever waits on a future
\* gets the outcome of that future's own call of fn and of no other.
EvictStep(f) ==
    proc[HandlerOf(f)].pc \in {"handler", "nohandler"} /\ proc'[HandlerOf(f)].pc = "exit"
C7_Step ==
    /\ \A f \in FutIds : EvictStep(f) => fkey[f] \notin DOMAIN store'
    /\ \A p \in Clients :
          proc[p].pc = "idle" =>
              /\ proc'[p].pc = "call" =>
                    /\ proc'[p].key \in DOMAIN store
                    /\ proc'[p].fut = store[proc'[p].key]
              /\ proc'[p].pc = "nokey" =>
                    /\ proc'[p].key \notin DOMAIN store
                    /\ proc'[p].ret = NoRet
    /\ \A p \in Clients :
          (proc[p].pc = "nokey" /\ proc'[p].pc = "set") =>
              /\ proc'[p].fut \notin {proc[q].fut : q \in Procs}
              /\ proc'[p].fut \notin {store[k] : k \in DOMAIN store}
              /\ ~done'[proc'[p].fut] /\ subs'[proc'[p].fut] = EmptyMap
              /\ fnpc'[proc'[p].fut] = "run"
C7_OwnOutcomeOnly ==
    \A p \in Procs :
        (Returned(p) /\ proc[p].ret.ok)
            => /\ proc[p].ret.res \in FnResults(FutOf(p))
               /\ \A g \in FutIds \ {FutOf(p)} : proc[p].ret.res \notin FnResults(g)
C7_FreshAfterEviction == [][C7_Step]_vars /\ []C7_OwnOutcomeOnly

\* A waiter of the future started after an eviction of its key has returned
\* that future's result, the earlier future having completed with its own.
C7_Witness ==
    \E p \in Procs, f, g \in FutIds :
        /\ f # g /\ fkey[f] = fkey[g] /\ g \in Evicted(fkey[g])
        /\ hasResult[g]
        /\ afterEvict[f]
        /\ FutOf(p) = f /\ Returned(p) /\ proc[p].ret.ok
        /\ proc[p].ret.res \in FnResults(f)

\* C8: Set returns true exactly when the entry was live (it held a value and
\* was not expired) when the call was made, so false on an absent or expired
\* entry; Delete of CacheValue and of Cache returns true on the same condition
\* and leaves the entry absent.
WasLive ==
    /\ last.pre.present /\ last.pre.hasValue
    /\ conf.timeout = 0 \/ ~(now > last.pre.expiresAt)
C8_SetDeleteReportLive ==
    /\ last.op \in {"cv.Set", "Set"} => (last.ok <=> WasLive)
    /\ last.op \in {"cv.Delete", "Delete"} =>
          /\ last.ok <=> WasLive
          /\ ~Has(last.key)
          /\ ~View(storage, heap, last.key).hasValue
          /\ last.op = "Delete" => last.key \notin DOMAIN storage

\* Set has just overwritten an expired value and returned false.
C8_Witness ==
    /\ last.op = "Set" /\ last.pre.hasValue /\ ~last.ok
    /\ Has(last.key)

\* C9: with timeout T > 0, Has is true at the instant of a Set and false at
\* every instant later than T after the latest Set; with timeout 0 the value
\* set stays until it is deleted.
C9_ExpiresAfterTimeout ==
    \A k \in CacheKeys \cup {"cv"} :
        setAt[k] # ZeroTime =>
            IF conf.timeout > 0
            THEN /\ now = setAt[k] => Has(k)
                 /\ now > setAt[k] + conf.timeout => ~Has(k)
            ELSE Has(k)

\* A value set with a timeout T > 0 is still stored, more than T has passed
\* since, and Has is false.
C9_Witness ==
    \E k \in CacheKeys :
        /\ conf.timeout > 0 /\ setAt[k] # ZeroTime
        /\ now > setAt[k] + conf.timeout
        /\ View(storage, heap, k).hasValue
        /\ ~Has(k)

\* C10: when the generator fails in GetDefault or Update, of CacheValue or of
\* Cache, the call returns the error and the value, the hasValue flag and the
\* expiry of the entry are what they were before the call.
Content(v) == [value |-> v.value, hasValue |-> v.hasValue, expiresAt |-> v.expiresAt]
C10_FailingGeneratorKeepsEntry ==
    last.genFailed =>
        /\ last.op \in {"cv.GetDefault", "cv.Update", "GetDefault", "Update"}
        /\ last.err = "gen"
        /\ Content(View(storage, heap, last.key)) = Content(last.pre)

\* The generator has just failed in GetDefault on an entry holding an expired
\* value, which is still there.
C10_Witness ==
    /\ last.genFailed /\ last.op \in {"cv.GetDefault", "GetDefault"}
    /\ last.pre.hasValue
    /\ View(storage, heap, last.key).hasValue

\* C11: with a generator, GetDefault on a miss runs the generator once and, on
\* its success, stores the value and returns (value, false, nil); GetDefault on
\* a live entry, such as the one a miss has just filled, returns
\* (value, true, nil) and does not run the generator.
GetDefaultOps == {"cv.GetDefault", "GetDefault"}
C11_GetDefaultMissThenHit ==
    (last.op \in GetDefaultOps /\ conf.defaultFn) =>
        IF WasLive
        THEN /\ last.calls = 0
             /\ last.ok /\ last.err = "nil" /\ last.val = last.pre.value
        ELSE /\ last.calls = 1
             /\ ~last.genFailed =>
                   /\ ~last.ok /\ last.err = "nil" /\ last.val \in Values
                   /\ View(storage, heap, last.key).value = last.val
                   /\ Has(last.key)

\* GetDefault of a Cache has just found the live value an earlier miss had
\* the generator store, some time after it was stored, and has not run the
\* generator.
C11_Witness ==
    /\ last.op = "GetDefault" /\ conf.defaultFn
    /\ written[last.key] = "gen"
    /\ last.ok /\ last.calls = 0 /\ last.val \in Values
    /\ now > setAt[last.key] /\ setAt[last.key] # ZeroTime

\* C12: SetMany returns the number of the given keys whose entries were live
\* when the call was made, DeleteMany the number of the given keys whose
\* entries were live when the call was made; keys that were absent or expired,
\* and repetitions of a key in the slice, count for nothing.
LiveIn(v) ==
    /\ v.present /\ v.hasValue
    /\ conf.timeout = 0 \/ ~(now > v.expiresAt)
LiveBefore == {k \in last.given : LiveIn(last.preMany[k])}
C12_CountOfLive ==
    /\ last.op = "SetMany" =>
          /\ last.val = Cardinality(LiveBefore)
          /\ \A k \in last.given : Has(k)
    /\ last.op = "DeleteMany" =>
          /\ last.val = Cardinality(LiveBefore)
          /\ \A k \in last.given : k \notin DOMAIN storage

\* SetMany has just written two keys, one of them live before and the other
\* holding an expired value, and has returned 1.
C12_Witness ==
    /\ last.op = "SetMany" /\ last.given = CacheKeys /\ last.val = 1
    /\ \E k \in last.given : last.preMany[k].hasValue /\ ~LiveIn(last.preMany[k])

\* C13: every read treats an expired entry as absent. Len returns the number
\* of live entries; Keys returns the live keys, each once; Values the values of
\* the live entries, one for each; Range hands a callback that never stops it
\* the live pairs, each once; an expired entry, still in storage, is in none.
LiveNow == {k \in CacheKeys : LiveIn(View(storage, heap, k))}
ValueOf(k) == View(storage, heap, k).value
C13_ReadsSkipExpired ==
    /\ last.op = "Len" => last.val = Cardinality(LiveNow)
    /\ last.op = "Keys" => \E q \in Perms(LiveNow) : last.out = q
    /\ last.op = "Values" =>
          \E q \in Perms(LiveNow) : last.out = [i \in DOMAIN q |-> ValueOf(q[i])]
    /\ (last.op = "Range" /\ last.ok) =>
          \E q \in Perms(LiveNow) : last.out = [i \in DOMAIN q |-> <<q[i], ValueOf(q[i])>>]

\* Keys has just returned one key while storage holds two entries with a
\* value, the other one expired.
C13_Witness ==
    /\ last.op = "Keys" /\ Len(last.out) = 1
    /\ \A k \in CacheKeys : k \in DOMAIN storage /\ heap[storage[k]].hasValue
    /\ \E k \in CacheKeys : ~LiveIn(View(storage, heap, k))

\* C14: for a key that no Set or SetMany was given and no generator filled,
\* Has is false and GetNoDefault returns (zero, false), whatever was done to
\* the other keys and whatever entry GetDefault made for the key.
NeverSet(k) == written[k] = "never"
C14_NeverSetNotFound ==
    /\ \A k \in CacheKeys :
          NeverSet(k) =>
              /\ ~CacheHas(storage, heap, k, now)
              /\ CacheGetNoDefault(storage, heap, k, now) = [val |-> ZeroValue, ok |-> FALSE]
    /\ (last.op \in {"GetNoDefault", "Has"} /\ NeverSet(last.key)) =>
          ~last.ok /\ last.val = ZeroValue

\* GetNoDefault has just found nothing for a key never set, for which a
\* GetDefault made an entry, while the other key holds a live value.
C14_Witness ==
    /\ last.op = "GetNoDefault" /\ NeverSet(last.key) /\ ~last.ok
    /\ last.key \in DOMAIN storage
    /\ \E k \in CacheKeys \ {last.key} : Has(k)

\* C15: after Apply(data) under StrategyReplace the store holds exactly the
\* dataset: the keys of data and no other, each with its value in data,
\* whatever the store held before.
C15_ReplaceIsExact ==
    (lastApply.done /\ strategy = "StrategyReplace") =>
        /\ DOMAIN sinkStore = DOMAIN lastApply.data
        /\ \A k \in DOMAIN sinkStore : sinkStore[k] = lastApply.data[k]

\* Replace has just been applied to a store holding a key that the dataset
\* lacks, and a key of the dataset with another value.
C15_Witness ==
    /\ lastApply.done /\ strategy = "StrategyReplace"
    /\ \E k \in DOMAIN lastApply.before : k \notin DOMAIN lastApply.data
    /\ \E k \in DOMAIN lastApply.before \cap DOMAIN lastApply.data :
          lastApply.before[k] # lastApply.data[k]
    /\ sinkStore = lastApply.data

\* C16: after Apply(data) under StrategyMerge, StrategyUpsertOnly or
\* StrategyIncremental every key of data has its value in data, every other
\* key of the store has the value it had, no key is gone, and the three
\* strategies make the same store of the same store and data.
UpsertStrategies == Strategies \ {"StrategyReplace"}
StopHasReturned == ctl.pc = "idle" /\ ctl.last = "Stop"
InCycle(c) == loop[c].pc \in {"fetch", "apply"}
C17_StopWaitsForLoop ==
    StopHasReturned =>
        \A c \in CallIds : loop[c].pc \in {"none", "exited"} /\ ~loop[c].tick

\* Stop has returned, the goroutine of a loop that ran a cycle having exited.
C17_Witness ==
    /\ StopHasReturned
    /\ \E c \in CallIds : loop[c].pc = "exited" /\ loop[c].cycled
    /\ wg = 0

\* C18: a StartSync whose fetch or Apply fails returns the error, having
\* canceled its context, and starts no goroutine: no cycle ever runs for it.
\* A StartSync that succeeds has done one fetch and one Apply when it returns
\* and has started the goroutine; and only a Start or such a StartSync starts
\* one.
SyncReturned(c) == starts[c].op = "StartSync" /\ starts[c].outcome # "running"
C18_FailedStartSyncStartsNoLoop ==
    \A c \in CallIds :
        /\ (SyncReturned(c) /\ starts[c].outcome = "err") =>
              /\ loop[c] = NoLoop
              /\ c \in canceled
              /\ starts[c].fetched = 1
        /\ (SyncReturned(c) /\ starts[c].outcome = "ok") =>
              /\ starts[c].fetched = 1 /\ starts[c].applied = 1
              /\ loop[c].pc # "none"
        /\ loop[c].pc # "none" =>
              \/ starts[c].op = "Start"
              \/ starts[c].op = "StartSync" /\ starts[c].outcome = "ok"

\* A StartSync has failed in its fetch and has returned, no goroutine was
\* started for it, and Stop has returned since.
C18_Witness ==
    \E c \in CallIds :
        /\ SyncReturned(c) /\ starts[c].outcome = "err" /\ starts[c].applied = 0
        /\ loop[c] = NoLoop
        /\ StopHasReturned

\* C19: Start does no fetch: it returns with its goroutine yet to make its
\* ticker, and a goroutine starts a cycle only after a full interval of its
\* ticker has elapsed.
C19_StartStep ==
    (ctl'.last = "Start" /\ ctl' # ctl /\ uctx' # uctx) =>
        /\ loop'[uctx'].pc = "start"
        /\ starts'[uctx'].fetched = 0 /\ starts'[uctx'].applied = 0
        /\ \A c \in CallIds \ {uctx'} : loop'[c] = loop[c]
C19_NoCycleBeforeTick ==
    \A c \in CallIds :
        /\ starts[c].op = "Start" => starts[c].fetched = 0 /\ starts[c].applied = 0
        /\ (InCycle(c) \/ loop[c].cycled) => loop[c].elapsed
C19_FirstRefreshAfterInterval == [][C19_StartStep]_vars /\ []C19_NoCycleBeforeTick

\* The goroutine of a Start is in its first fetch, an interval of its ticker
\* having elapsed.
C19_Witness ==
    \E c \in CallIds :
        /\ starts[c].op = "Start"
        /\ loop[c].pc = "fetch" /\ loop[c].elapsed

\* C20: the fetch chain of the middlewares m1..mn, in the order added, is
\* m1(m2(...mn(source.Fetch))): a call of it is seen by m1 first, then by m2,
\* and so on to mn, then source.Fetch is called, and the result is seen by mn
\* first and by m1 last.
RECURSIVE Nested(_)
Nested(mws) == IF mws = <<>> THEN SourceFetch ELSE Wrap(Head(mws), Nested(Tail(mws)))
C20_FirstAddedIsOutermost ==
    lastFetch.done =>
        LET n == Len(lastFetch.mws) IN
            /\ BuildFetchChain(lastFetch.mws) = Nested(lastFetch.mws)
            /\ Len(lastFetch.log) = 2 * n + 1
            /\ lastFetch.log[n + 1] = <<"fetch", "source">>
            /\ \A i \in 1..n :
                  /\ lastFetch.log[i] = <<"call", lastFetch.mws[i]>>
                  /\ lastFetch.log[2 * n + 2 - i] = <<"result", lastFetch.mws[i]>>

\* The chain of three middlewares, the first and the last of them different,
\* has been called.
C20_Witness ==
    /\ lastFetch.done /\ Len(lastFetch.mws) = 3
    /\ lastFetch.mws[1] # lastFetch.mws[3]
    /\ lastFetch.log[1] = <<"call", lastFetch.mws[1]>>
    /\ lastFetch.log[7] = <<"result", lastFetch.mws[1]>>

\* C21: once a future is completed its outcome (result and hasResult) never
\* changes again and no subscriber is added; when the producer has gone
\* through the registry and released the lock, every subscriber still waiting
\* has been notified: its channel holds the result, if there is one, and is
\* closed. The registry itself keeps the subscribers the producer notified.
C21_CompletedStep ==
    \A f \in FutIds :
        done[f] =>
            /\ done'[f]
            /\ result'[f] = result[f] /\ hasResult'[f] = hasResult[f]
            /\ DOMAIN subs'[f] \subseteq DOMAIN subs[f]
C21_AllNotified ==
    \A f \in FutIds, p \in Procs :
        (prod[f].pc = "exit" /\ proc[p].pc \in {"waiting", "ctxdone"} /\ proc[p].fut = f)
            => /\ done[f]
               /\ proc[p].id \in DOMAIN subs[f]
               /\ ch[p].closed
               /\ ch[p].buf = IF hasResult[f] THEN <<result[f]>> ELSE <<>>
C21_CompletedOutcomeFixed == [][C21_CompletedStep]_vars /\ []C21_AllNotified

\* The producer has ended after a result, and a subscriber it notified is
\* still in the registry, its channel filled and closed.
C21_Witness ==
    \E f \in FutIds, p \in Clients :
        /\ prod[f].pc = "exit" /\ hasResult[f]
        /\ proc[p].pc = "waiting" /\ proc[p].fut = f
        /\ proc[p].id \in DOMAIN subs[f]
        /\ ch[p].closed

\* C21 as the claim states it: the outcome of a completed future is fixed and,
\* the completion transition over, its registry is empty.
C21_CompletedRegistryEmpty ==
    /\ [][\A f \in FutIds : done[f] => /\ done'[f]
                                       /\ result'[f] = result[f]
                                       /\ hasResult'[f] = hasResult[f]]_vars
    /\ [](\A f \in FutIds : prod[f].pc = "exit" => subs[f] = EmptyMap)

\* C22: a subscriber registered while the future is pending stays in the
\* registry until its own cancellation removes it, and the producer notifies
\* it at most once (the value, if any, then the closure), not before the
\* completion; a subscriber that removed itself before the completion is
\* never notified: its channel stays empty and open.
C22_NotifiedOrRemoved ==
    \A p \in Procs :
        LET f == proc[p].fut IN
        /\ Len(ch[p].buf) <= 1
        /\ proc[p].pc \in {"waiting", "ctxdone"} =>
              /\ proc[p].id \in DOMAIN subs[f] /\ subs[f][proc[p].id] = p
              /\ (ch[p].closed \/ ch[p].buf # <<>>) => done[f]
        /\ (proc[p].pc = "returned" /\ proc[p].registered /\ ~proc[p].doneAtReturn) =>
              /\ proc[p].canceled /\ proc[p].ret = NoRet
              /\ proc[p].id \notin DOMAIN subs[f]
              /\ ch[p] = OpenChan

\* A subscriber has removed itself before the completion and has returned;
\* the producer has since notified another subscriber and ended.
C22_Witness ==
    \E p, q \in Clients :
        /\ proc[p].pc = "returned" /\ proc[p].registered /\ ~proc[p].doneAtReturn
        /\ proc[q].pc = "waiting" /\ proc[q].fut = proc[p].fut
        /\ prod[proc[p].fut].pc = "exit"
        /\ ch[q].closed /\ ch[p] = OpenChan

\* C22 as the claim states it: no subscriber channel is both written by the
\* producer and removed from the registry by its canceling waiter.
C22_NeverBoth ==
    \A p \in Procs :
        (proc[p].pc = "returned" /\ proc[p].registered)
            => ~(ch[p].closed /\ proc[p].id \notin DOMAIN subs[proc[p].fut])

\* C23: the Store entry of key K is evicted only by the completion of the
\* future stored under K: the step that removes K from the Store is the
\* store.Delete of the goroutine of that very future, which has completed, so
\* a later future of K that is still pending is never removed.
C23_EvictedByOwnCompletion ==
    [][\A k \in DOMAIN store :
          k \notin DOMAIN store' => /\ EvictStep(store[k])
                                    /\ done[store[k]]]_vars

\* C24: in the loop of run() the cancellation is looked at in the select
\* between two cycles only. A cycle in flight goes on to its end whatever is
\* canceled; the loop ends only at the select, on a canceled context; a cycle
\* starts only at the select, on a tick, so that after the cancellation a
\* further cycle starts only if a tick is pending along with it; and a loop
\* that has ended starts nothing.
C24_LoopStep ==
    \A c \in CallIds :
        /\ loop[c].pc \in {"fetch", "apply"} => loop'[c].pc \in {"fetch", "apply", "select"}
        /\ (loop[c].pc # "exited" /\ loop'[c].pc = "exited") =>
              loop[c].pc = "select" /\ CtxDone(c)
        /\ (loop[c].pc # "fetch" /\ loop'[c].pc = "fetch") =>
              loop[c].pc = "select" /\ loop[c].tick
        /\ loop[c].pc = "exited" => loop'[c] = loop[c]
C24_InFlightCycleFinishes == [][C24_LoopStep]_vars

\* Stop has canceled the context while the cycle of the loop is at its Apply.
C24_Witness ==
    \E c \in CallIds :
        /\ loop[c].pc = "apply" /\ c = uctx /\ c \in canceled
        /\ ctl.pc = "stop_wait"

\* C24 as the claim states it: a cycle in flight is not cut short, and no
\* cycle starts once the context is canceled, a pending tick or not.
C24_NoCycleOnceCanceled ==
    [][\A c \in CallIds :
          /\ loop[c].pc \in {"fetch", "apply"} => loop'[c].pc \in {"fetch", "apply", "select"}
          /\ (loop[c].pc = "select" /\ \A seen \in SeenCtx(c) : seen \in canceled)
                => loop'[c].pc # "fetch"]_vars

\* C25: every updateOnce, of the loop or of StartSync, records one of two
\* outcomes when it returns. On success lastSuccess is the time of the return,
\* lastError is nil and onSuccess, if set, is the callback invoked. On a
\* failure lastError is the error of the fetch or of Apply, lastSuccess is what
\* it was and onError, if set, is the callback invoked; after a failing fetch
\* the cycle returns without the call of Sink.Apply. Nothing else changes any
\* of this.
FetchReturns ==
    \/ \E c \in CallIds : loop[c].pc = "fetch" /\ loop'[c].pc = "select"
    \/ ctl.pc = "sync_fetch" /\ ctl'.pc = "idle"
ApplyReturns ==
    \/ \E c \in CallIds : loop[c].pc = "apply" /\ loop'[c].pc = "select"
    \/ ctl.pc = "sync_apply" /\ ctl'.pc = "idle"
C25_CycleStep ==
    IF FetchReturns \/ ApplyReturns
    THEN /\ meta'.onSuccess = meta.onSuccess /\ meta'.onError = meta.onError
         /\ meta'.err \in {"nil", "fetch", "apply"}
         /\ meta'.err = "fetch" <=> FetchReturns
         /\ IF meta'.err = "nil"
            THEN /\ meta'.lastSuccess = now /\ meta'.lastError = "nil"
                 /\ meta'.called = IF meta.onSuccess THEN "onSuccess" ELSE "none"
            ELSE /\ meta'.lastSuccess = meta.lastSuccess /\ meta'.lastError = meta'.err
                 /\ meta'.called = IF meta.onError THEN "onError" ELSE "none"
    ELSE meta' = meta
C25_OneOutcomePerCycle == [][C25_CycleStep]_vars

\* A cycle of the loop has failed in Apply some time after a success: the
\* error is recorded and reported, the time of the success is still there.
C25_Witness ==
    /\ meta.err = "apply" /\ meta.lastError = "apply" /\ meta.called = "onError"
    /\ meta.lastSuccess # ZeroTime /\ meta.lastSuccess < now
    /\ \E c \in CallIds : loop[c].cycled /\ loop[c].pc = "select"

\* C26: the cycles of one Updater are serialized. Whatever Start, StartSync and
\* Stop calls were made, at most one goroutine run() is alive and at most one
\* updateOnce, of a goroutine or of StartSync, is in progress.
LoopsAlive == {c \in CallIds : loop[c].pc \in {"start", "select", "fetch", "apply"}}
CyclesInProgress ==
    Cardinality({c \in CallIds : loop[c].pc \in {"fetch", "apply"}})
        + (IF ctl.pc \in {"sync_fetch", "sync_apply"} THEN 1 ELSE 0)
C26_CyclesSerialized ==
    /\ Cardinality(LoopsAlive) <= 1
    /\ CyclesInProgress <= 1

\* C27: an entry is live iff it holds a value and its timeout is 0 or the
\* clock has not passed expiresAt (now <= expiresAt): Has and GetNoDefault
\* report the entry found exactly then, so at the instant now = expiresAt the
\* entry is still live, and from the next instant on it is not.
LiveUntil(v) ==
    /\ v.present /\ v.hasValue
    /\ conf.timeout = 0 \/ now <= v.expiresAt
C27_LiveThroughExpiresAt ==
    /\ \A k \in CacheKeys \cup {"cv"} : Has(k) <=> LiveUntil(View(storage, heap, k))
    /\ last.op \in {"GetNoDefault", "Has"} => (last.ok <=> LiveUntil(last.pre))
    /\ (last.op = "GetNoDefault" /\ last.ok) => last.val = last.pre.value

\* Has has just reported a key at the very instant its value expires.
C27_Witness ==
    /\ last.op = "Has" /\ last.ok
    /\ conf.timeout > 0 /\ last.pre.expiresAt = now

\* C27 as the claim states it: live iff the entry holds a value and its
\* timeout is 0 or now < expiresAt.
LiveBeforeExpiresAt(v) ==
    /\ v.present /\ v.hasValue
    /\ conf.timeout = 0 \/ now < v.expiresAt
C27_LiveBeforeExpiresAt ==
    /\ \A k \in CacheKeys \cup {"cv"} : Has(k) <=> LiveBeforeExpiresAt(View(storage, heap, k))
    /\ last.op \in {"GetNoDefault", "Has"} => (last.ok <=> LiveBeforeExpiresAt(last.pre))

\* C28: with a timeout T > 0 the expiresAt of an entry holding a value is the
\* time of the latest Set of that value plus T, Set on a value that has not
\* expired included (GetDefault on a miss and Update store through Set); and
\* the reads GetNoDefault, Has, GetDefault on a hit, Len, Keys, Values and
\* Range leave every entry, its expiresAt included, as it was.
C28_ExpiryFromLatestSet ==
    /\ \A k \in CacheKeys \cup {"cv"} :
          LET v == View(storage, heap, k) IN
          (conf.timeout > 0 /\ v.hasValue) =>
              /\ setAt[k] # ZeroTime
              /\ v.expiresAt = setAt[k] + conf.timeout
    /\ (\/ last.op \in {"GetNoDefault", "Has"}
        \/ last.op \in {"GetDefault", "cv.GetDefault"} /\ last.ok)
          => View(storage, heap, last.key) = last.pre
    /\ last.op \in {"Len", "Keys", "Values", "Range"} =>
          \A k \in CacheKeys : View(storage, heap, k) = last.preMany[k]

\* Set has just overwritten a value that had not expired, some time after
\* that value was set: the expiry is later than it was.
C28_Witness ==
    /\ last.op = "Set" /\ last.ok /\ conf.timeout > 0
    /\ last.pre.expiresAt < now + conf.timeout
    /\ View(storage, heap, last.key).expiresAt = now + conf.timeout


\* C29: lazy creation of an entry happens once per key under contention.
\* While Delete has not been called for a key, goroutines that run
\* getCacheValue for it at the same time (from Set or GetDefault) create and
\* insert one CacheValue between them, the key is in storage from then on,
\* and each of them holds the entry storage has for the key, so that a Set
\* writes to no other entry.
KeyDeleted(k) == \E w \in Workers : work[w].op = "Delete" /\ work[w].key = k
Makers(k) == {w \in Workers : work[w].key = k /\ work[w].how = "made"}
Holders(k) == {w \in Workers : work[w].key = k /\ work[w].pc \in {"have", "gen"}}
C29_CreatedOncePerKey ==
    \A k \in CacheKeys :
        ~KeyDeleted(k) =>
            /\ Cardinality(Makers(k)) <= 1
            /\ (k \in DOMAIN storage <=> Makers(k) # {})
            /\ \A w \in Holders(k) : k \in DOMAIN storage /\ work[w].cv = storage[k]
\* Two goroutines missed the key under RLock; one created the entry, the other
\* found it at its second look, and a Set is about to write to it.
C29_Witness ==
    \E k \in CacheKeys : \E w1, w2 \in Holders(k) :
        /\ ~KeyDeleted(k)
        /\ work[w1].how = "made" /\ work[w2].how = "found"
        /\ work[w2].op = "Set" /\ work[w2].pc = "have"
        /\ work[w1].cv = work[w2].cv


\* C30: Cache.Set and Cache.Delete on one key are linearizable. When the calls
\* made are Sets and Deletes and all of them have returned, the keys in
\* storage, their values and the values the calls returned are those of the
\* calls made one after the other in some order; and a Set(k, v) that returned
\* after a Delete(k) had returned, no other call being made for k, leaves k
\* in storage with the value v.
SetsAndDeletesReturned ==
    \A w \in Workers : work[w].pc \in {"idle", "done"} /\ work[w].op # "GetDefault"
CallsDone == {w \in Workers : work[w].pc = "done"}
KeyView(st, h) ==
    [k \in CacheKeys |-> IF k \in DOMAIN st
                         THEN [in |-> TRUE, has |-> h[st[k]].hasValue, value |-> h[st[k]].value]
                         ELSE [in |-> FALSE, has |-> FALSE, value |-> ZeroValue]]
\* The calls of the goroutines in order, made one after the other on the Cache (st, h).
RECURSIVE OneByOne(_, _, _, _)
OneByOne(order, st, h, rets) ==
    IF order = <<>> THEN [storage |-> st, heap |-> h, rets |-> rets]
    ELSE LET w == Head(order)
             d == CacheDelete(st, h, work[w].key, now)
             r == IF work[w].op = "Set"
                  THEN CacheSet(st, h, work[w].key, work[w].val, conf.timeout, now)
                  ELSE [storage |-> d.storage, heap |-> Collect(h, d.storage), ret |-> d.ret]
         IN OneByOne(Tail(order), r.storage, r.heap, [rets EXCEPT ![w] = r.ret])
C30_SetDeleteLinearizable ==
    /\ SetsAndDeletesReturned =>
          \E order \in Perms(CallsDone) :
              LET s == OneByOne(order, EmptyMap, [e \in EntryIds |-> FreeEntry],
                                [w \in Workers |-> FALSE]) IN
                  /\ KeyView(s.storage, s.heap) = KeyView(storage, heap)
                  /\ \A w \in CallsDone : work[w].ok = s.rets[w]
    /\ \A k \in CacheKeys : \A w, d \in CallsDone :
          (/\ work[w].op = "Set" /\ work[w].key = k
           /\ work[d].op = "Delete" /\ work[d].key = k
           /\ work[d].rank < work[w].rank
           /\ \A x \in Workers \ {w, d} : work[x].key # k)
          => /\ k \in DOMAIN storage
             /\ heap[storage[k]].hasValue /\ heap[storage[k]].value = work[w].val


\* C31: the completion broadcast never blocks and never deadlocks. While the
\* producer goroutine ranges over the registry with mu held, every channel
\* it has still to visit is open and has its one slot free, whatever its
\* subscriber is doing, so each send and each close goes through, and no
\* channel ever holds more than one value. The producer leaves the loop only
\* by ending with mu released, and does so in the end; a waiter blocked in
\* call under way, once the future is completed or its own context is
\* canceled, ends only by returning, and does so in the end.
SlotFree(c) == ~c.closed /\ Len(c.buf) < 1
C31_SendNeverBlocks ==
    \A f \in FutIds :
        prod[f].pc = "range" =>
            /\ mu[f]
            /\ \A id \in prod[f].todo : id \in DOMAIN subs[f] /\ SlotFree(ch[subs[f][id]])
C31_OneValuePerChannel == \A p \in Procs : Len(ch[p].buf) <= 1
InLoop(f) == prod[f].pc = "range"
\* The call of the waiter is under way and is owed its return.
Owed(p) ==
    /\ proc[p].pc \in {"call", "waiting", "ctxdone"}
    /\ done[proc[p].fut] \/ proc[p].canceled
C31_LeavesByFinishing ==
    /\ \A f \in FutIds : (InLoop(f) /\ ~InLoop(f)') => (prod'[f].pc = "exit" /\ ~mu'[f])
    /\ \A p \in Clients : (Owed(p) /\ ~Owed(p)') => proc'[p].pc = "returned"
C31_BroadcastNeverBlocks ==
    /\ [](C31_SendNeverBlocks /\ C31_OneValuePerChannel)
    /\ [][C31_LeavesByFinishing]_vars
    /\ []<>(\A f \in FutIds : ~InLoop(f))
    /\ []<>(\A p \in Clients : ~Owed(p))
\* The producer has sent to and closed the channel of a subscriber that took
\* the ctx.Done() case and receives no more, and has ended with mu released.
C31_Witness ==
    \E f \in FutIds : \E p \in Clients :
        /\ prod[f].pc = "exit" /\ ~mu[f] /\ hasResult[f]
        /\ proc[p].pc = "ctxdone" /\ proc[p].fut = f
        /\ ch[p].closed /\ Len(ch[p].buf) = 1

====
